---- MODULE Spec2Model ----
(***************************************************************************)
(* A model of the granola export tool: the incremental sync engine         *)
(* (package sync: Writer.Sync and its helpers) over an abstract            *)
(* filesystem, the note writer (package writer), the transcript writer     *)
(* (package transcript) and the transcripts command, and the ProseMirror   *)
(* converter (package prosemirror).                                        *)
(*                                                                         *)
(* Strings are sequences of one-character strings, so that the filename    *)
(* policies and the converter are computed character by character as the   *)
(* Go code computes them.  A path is the sequence of its components below   *)
(* outputDir; <<>> is outputDir itself.                                    *)
(*                                                                         *)
(* Spec and FaultSpec run Writer.Sync (on a filesystem that answers every  *)
(* call, and on one whose calls may fail), ExportSpec runs the writers,     *)
(* ConvSpec runs the converter, ResolveSpec the content resolution,        *)
(* FetchSpec api.GetDocuments and RunSpec the export command (runExport).  *)
(***************************************************************************)
EXTENDS Integers, Sequences, FiniteSets, TLC

(***************************************************************************)
(* Strings                                                                 *)
(***************************************************************************)

\* The characters of the model in byte order (sort.Strings compares bytes).
Alphabet ==
    << " ", "-", ".", "/",
       "0", "1", "2", "3", "4", "5", "6", "7", "8", "9",
       "A", "B", "C", "D", "E", "F", "G", "H", "I", "J", "K", "L", "M",
       "N", "O", "P", "Q", "R", "S", "T", "U", "V", "W", "X", "Y", "Z",
       "_",
       "a", "b", "c", "d", "e", "f", "g", "h", "i", "j", "k", "l", "m",
       "n", "o", "p", "q", "r", "s", "t", "u", "v", "w", "x", "y", "z" >>

Ord(c) == CHOOSE i \in 1..Len(Alphabet) : Alphabet[i] = c

\* s < t in byte-wise lexicographic order.
RECURSIVE StrLess(_, _)
StrLess(s, t) ==
    IF t = <<>> THEN FALSE
    ELSE IF s = <<>> THEN TRUE
    ELSE IF Head(s) = Head(t) THEN StrLess(Tail(s), Tail(t))
    ELSE Ord(Head(s)) < Ord(Head(t))

\* The elements of a finite set of strings as a sorted sequence.
RECURSIVE SortStrings(_)
SortStrings(S) ==
    IF S = {} THEN <<>>
    ELSE LET m == CHOOSE x \in S : \A y \in S \ {x} : StrLess(x, y)
         IN  <<m>> \o SortStrings(S \ {m})

\* unicode.IsSpace, restricted to the characters of the model.
WhiteSpace == {" ", "\t", "\n", "\r"}

\* invalidFileChars: [<>:"/\\|?*\x00-\x1f]
InvalidFileChars == {"<", ">", ":", "\"", "/", "\\", "|", "?", "*", "\t", "\n", "\r"}

\* strings.TrimLeft / TrimRight / Trim over a cut set.
RECURSIVE TrimLeft(_, _)
TrimLeft(s, cut) ==
    IF s # <<>> /\ Head(s) \in cut THEN TrimLeft(Tail(s), cut) ELSE s

RECURSIVE TrimRight(_, _)
TrimRight(s, cut) ==
    IF s # <<>> /\ s[Len(s)] \in cut
    THEN TrimRight(SubSeq(s, 1, Len(s) - 1), cut)
    ELSE s

Trim(s, cut) == TrimRight(TrimLeft(s, cut), cut)

TrimSpace(s) == Trim(s, WhiteSpace)

\* invalidFileChars.ReplaceAllString(name, "_")
ReplaceInvalid(s) ==
    [i \in 1..Len(s) |-> IF s[i] \in InvalidFileChars THEN "_" ELSE s[i]]

\* regexp.MustCompile(`_+`).ReplaceAllString(name, "_")
CollapseUnderscores(s) ==
    LET kept == SelectSeq([p \in 1..Len(s) |-> p],
                          LAMBDA p : ~(s[p] = "_" /\ p > 1 /\ s[p - 1] = "_"))
    IN  [m \in 1..Len(kept) |-> s[kept[m]]]

\* name[:n] when len(name) > n
Truncate(s, n) == IF Len(s) > n THEN SubSeq(s, 1, n) ELSE s

HasSuffix(s, suf) ==
    /\ Len(s) >= Len(suf)
    /\ SubSeq(s, Len(s) - Len(suf) + 1, Len(s)) = suf

TrimSuffix(s, suf) ==
    IF HasSuffix(s, suf) THEN SubSeq(s, 1, Len(s) - Len(suf)) ELSE s

\* strings.LastIndex(s, c), 1-based; 0 stands for Go's -1.
LastIndex(s, c) ==
    IF \E i \in 1..Len(s) : s[i] = c
    THEN CHOOSE i \in 1..Len(s) : s[i] = c /\ \A j \in (i + 1)..Len(s) : s[j] # c
    ELSE 0

TxtExt == <<".", "t", "x", "t">>
Untitled == <<"u", "n", "t", "i", "t", "l", "e", "d">>
UnnamedFolder == <<"u", "n", "n", "a", "m", "e", "d", "_", "f", "o", "l", "d", "e", "r">>

(***************************************************************************)
(* Filename policy of the sync engine                                      *)
(***************************************************************************)

ShortIDLen == 8
MaxTitleLen == 80
MaxFolderLen == 100

\* The first 8 characters of the id, or the whole id when it is shorter.
ShortID(id) == IF Len(id) >= ShortIDLen THEN SubSeq(id, 1, ShortIDLen) ELSE id

\* Writer.generateFilename: {sanitized_title}_{short_id}.txt
generateFilename(title, id) ==
    LET n0 == TrimSpace(title)
        n1 == IF n0 = <<>> THEN Untitled ELSE n0
        n2 == Trim(CollapseUnderscores(ReplaceInvalid(n1)), {"_"})
        n3 == IF n2 = <<>> THEN Untitled ELSE n2
        name == Truncate(n3, MaxTitleLen)
    IN  name \o <<"_">> \o ShortID(id) \o TxtExt

\* extractIDFromFilename without the test for 8 characters: whatever follows
\* the last underscore counts as an id.
extractIDOfAnyLength(filename) ==
    LET name == TrimSuffix(filename, TxtExt)
        lastUnderscore == LastIndex(name, "_")
    IN  IF lastUnderscore = 0 \/ lastUnderscore = Len(name) THEN <<>>
        ELSE LET id == SubSeq(name, lastUnderscore + 1, Len(name))
             IN  IF Len(id) >= ShortIDLen THEN SubSeq(id, 1, ShortIDLen) ELSE id

\* extractIDFromFilename: the text after the last underscore when it has at
\* least 8 characters (cut to 8), else the empty string.
extractIDFromFilename(filename) ==
    LET name == TrimSuffix(filename, TxtExt)
        lastUnderscore == LastIndex(name, "_")
    IN  IF lastUnderscore = 0 \/ lastUnderscore = Len(name) THEN <<>>
        ELSE LET id == SubSeq(name, lastUnderscore + 1, Len(name))
             IN  IF Len(id) >= ShortIDLen THEN SubSeq(id, 1, ShortIDLen) ELSE <<>>

\* sanitizeFolderName
sanitizeFolderName(folder) ==
    LET n1 == Trim(CollapseUnderscores(ReplaceInvalid(TrimSpace(folder))), {"_"})
        n2 == IF n1 = <<>> THEN UnnamedFolder ELSE n1
    IN  Truncate(n2, MaxFolderLen)

(***************************************************************************)
(* Paths                                                                   *)
(***************************************************************************)

Dot == <<".">>
DotDot == <<".", ".">>

\* filepath.Join(outputDir, elems...) cleans the result: "." is dropped and
\* ".." cancels the component before it; a ".." that has nothing to cancel
\* stays in front and the path then lies outside outputDir.
RECURSIVE CleanOnto(_, _)
CleanOnto(acc, rest) ==
    IF rest = <<>> THEN acc
    ELSE LET c == Head(rest)
         IN  IF c = Dot THEN CleanOnto(acc, Tail(rest))
             ELSE IF c = DotDot /\ acc # <<>> /\ acc[Len(acc)] # DotDot
                  THEN CleanOnto(SubSeq(acc, 1, Len(acc) - 1), Tail(rest))
             ELSE CleanOnto(Append(acc, c), Tail(rest))

Join(elems) == CleanOnto(<<>>, elems)

\* filepath.Dir and filepath.Base of a path below (or beside) outputDir.
Dir(path) == SubSeq(path, 1, Len(path) - 1)
Base(path) == path[Len(path)]

IsPrefix(p, q) == Len(p) <= Len(q) /\ SubSeq(q, 1, Len(p)) = p

\* Writer.getTargetPaths
getTargetPaths(folders, filename) ==
    IF Len(folders) = 0
    THEN << Join(<<filename>>) >>
    ELSE [i \in 1..Len(folders) |->
            Join(<<sanitizeFolderName(folders[i]), filename>>)]

(***************************************************************************)
(* The filesystem (afero.Fs)                                               *)
(***************************************************************************)

\* files: path |-> [content, mtime] for every regular file;
\* dirs: the set of directories, outputDir (<<>>) among them.

Prefixes(path) == { SubSeq(path, 1, n) : n \in 0..Len(path) }

\* A path with ".." in front lies outside outputDir.
InsideRoot(path) == path = <<>> \/ path[1] # DotDot

\* fs.MkdirAll(dir): fails when a component of dir is a regular file.
MkdirAllPossible(fs_files, dir) == \A q \in Prefixes(dir) : q \notin DOMAIN fs_files

MkdirAll(fs_dirs, dir) == fs_dirs \cup Prefixes(dir)

\* afero.WriteFile(fs, path, content, 0644): creates or truncates the file
\* and stamps it with the current time.
WriteFile(fs_files, path, content, now) ==
    [q \in DOMAIN fs_files \cup {path} |->
        IF q = path THEN [content |-> content, mtime |-> now] ELSE fs_files[q]]

\* fs.Remove(path) of a regular file.
Remove(fs_files, path) == [q \in DOMAIN fs_files \ {path} |-> fs_files[q]]

\* The names of the entries of directory p ("." and ".." are no entries).
Children(fs_dirs, fs_files, p) ==
    { q[Len(p) + 1] :
        q \in { r \in fs_dirs \cup DOMAIN fs_files :
                   Len(r) = Len(p) + 1 /\ IsPrefix(p, r) } } \ {Dot, DotDot}

\* afero.Walk: the regular files below p in walk order (pre-order, the
\* entries of each directory in sorted order).
RECURSIVE WalkFiles(_, _, _)
RECURSIVE WalkNames(_, _, _, _)
WalkFiles(fs_dirs, fs_files, p) ==
    WalkNames(fs_dirs, fs_files, p, SortStrings(Children(fs_dirs, fs_files, p)))

WalkNames(fs_dirs, fs_files, p, names) ==
    IF names = <<>> THEN <<>>
    ELSE LET q == Append(p, Head(names))
             here == IF q \in DOMAIN fs_files THEN <<q>>
                     ELSE WalkFiles(fs_dirs, fs_files, q)
         IN  here \o WalkNames(fs_dirs, fs_files, p, Tail(names))

(***************************************************************************)
(* Writer.scanExistingFiles                                                *)
(***************************************************************************)

\* The key under which a file is indexed; <<>> when it is not indexed.
IndexKey(path) ==
    IF HasSuffix(Base(path), TxtExt) THEN extractIDFromFilename(Base(path)) ELSE <<>>

\* id |-> the paths of the .txt files that embed the id, in walk order.
scanExistingFiles(fs_dirs, fs_files) ==
    LET walked == WalkFiles(fs_dirs, fs_files, <<>>)
        keys == { IndexKey(walked[n]) : n \in 1..Len(walked) } \ {<<>>}
    IN  [id \in keys |-> SelectSeq(walked, LAMBDA q : IndexKey(q) = id)]

\* A Go map read: the zero value (nil slice) for a missing key.
Lookup(m, key) == IF key \in DOMAIN m THEN m[key] ELSE <<>>

\* delete(m, key)
Delete(m, key) == [x \in DOMAIN m \ {key} |-> m[x]]

SeqToSet(s) == { s[n] : n \in 1..Len(s) }

(***************************************************************************)
(* Writer.cleanEmptyFolders                                                *)
(***************************************************************************)

\* afero.Walk visits a directory (the callback removes it when it is not
\* outputDir and has no entry), then lists it and visits its entries in
\* sorted order.  Listing a directory the callback has just removed fails;
\* Walk hands that error to the callback, the callback returns it and the
\* walk ends there.  fault = "readdir" makes afero.ReadDir fail (the
\* callback ignores it), fault = "rmdir" makes fs.Remove fail (ignored).
\* The result is [dirs, stop]: the directories left, and whether the walk
\* has ended with an error.
RECURSIVE cleanVisit(_, _, _, _)
RECURSIVE cleanEntries(_, _, _, _, _)
cleanVisit(fs_dirs, fs_files, p, fault) ==
    LET empty == Children(fs_dirs, fs_files, p) = {}
        removes == p # <<>> /\ fault = "none" /\ empty
        left == IF removes THEN fs_dirs \ {p} ELSE fs_dirs
    IN  IF removes THEN [dirs |-> left, stop |-> TRUE]
        ELSE cleanEntries(left, fs_files, p,
                          SortStrings(Children(left, fs_files, p)), fault)

cleanEntries(fs_dirs, fs_files, p, names, fault) ==
    IF names = <<>> THEN [dirs |-> fs_dirs, stop |-> FALSE]
    ELSE LET q == Append(p, Head(names))
             r == IF q \in fs_dirs THEN cleanVisit(fs_dirs, fs_files, q, fault)
                  ELSE [dirs |-> fs_dirs, stop |-> FALSE]
         IN  IF r.stop THEN r
             ELSE cleanEntries(r.dirs, fs_files, p, Tail(names), fault)

cleanEmptyFolders(fs_dirs, fs_files, fault) ==
    cleanVisit(fs_dirs, fs_files, <<>>, fault).dirs

(***************************************************************************)
(* Inputs                                                                  *)
(***************************************************************************)

MaxRuns == 2

Id8 == <<"d", "o", "c", "0", "0", "0", "0", "1">>
IdLong == Id8 \o <<"-", "9", "f", "2">>
IdShort == <<"d", "o", "c", "7">>
IdGone == <<"g", "o", "n", "e", "0", "0", "0", "0">>

TitleT == <<"T">>
TitleU == <<"U", "/", "2">>

FolderA == <<"A">>
FolderB == <<"B">>
FolderBlank == <<" ", "\t">>
FolderNested == <<"A", "/", ".", ".", "\\", "B">>

\* The header FormatCombined writes in front of the notes and the transcript;
\* the notes and the transcript themselves are held fixed.
FormatCombined(title, id, updatedAt, folders) ==
    [title |-> title, id |-> id, updated |-> updatedAt, folders |-> folders]

\* What a file holds when WriteFile has opened it with O_TRUNC and the write
\* has failed: nothing.
Truncated == [title |-> <<>>, id |-> <<>>, updated |-> 0, folders |-> <<>>]

\* runExport builds one ExportDoc per API document.
ExportDoc(id, title, updatedAt, folders) ==
    [ID |-> id, Title |-> title, UpdatedAt |-> updatedAt,
     Content |-> FormatCombined(title, id, updatedAt, folders),
     Folders |-> folders]

\* (title, update time, folders) of the documents the runs are given.
Variants ==
    { <<TitleT, 0, <<>>>>,
      <<TitleT, 0, <<FolderA>>>>,
      <<TitleT, 0, <<FolderA, FolderB>>>>,
      <<TitleU, 0, <<FolderA>>>>,
      <<TitleT, 1, <<FolderA>>>>,
      <<TitleT, 2, <<FolderA>>>>,
      <<TitleT, 0, <<FolderA, FolderA>>>>,
      <<TitleT, 0, <<Dot>>>>,
      <<TitleT, 0, <<DotDot>>>>,
      <<TitleT, 0, <<FolderBlank>>>>,
      <<TitleT, 0, <<FolderNested>>>> }

DocIds == {Id8, IdLong, IdShort}

IdsOf(ds) == { ds[n].ID : n \in 1..Len(ds) }

\* The document lists of a run: no document, one document of any variant,
\* or two documents with different ids in the same folder.
DocLists ==
    {<<>>}
    \cup { <<ExportDoc(id, v[1], v[2], v[3])>> : id \in DocIds, v \in Variants }
    \cup { <<ExportDoc(ab[1], TitleT, 0, <<FolderA>>),
               ExportDoc(ab[2], TitleT, 0, <<FolderA>>)>> :
             ab \in { x \in DocIds \X DocIds : x[1] # x[2] } }

\* runExport passes the ids of the API documents as the valid-id set; a
\* caller of Sync may also pass ids of documents it does not export.
Inputs ==
    { [docs |-> ds, valid |-> IdsOf(ds)] : ds \in DocLists }
    \cup { [docs |-> <<>>, valid |-> {Id8}] }

\* What is below outputDir before the first run.
EmptyTree == [dirs |-> {<<>>}, files |-> <<>>]

OldDir == <<"O", "l", "d">>
SubDir == <<"S", "u", "b">>
GoneTxt == <<"G", "o", "n", "e", "_">> \o IdGone \o TxtExt
NotesMd == <<"n", "o", "t", "e", "s", ".", "m", "d">>
TodoTxt == <<"t", "o", "d", "o", "_", "l", "i", "s", "t">> \o TxtExt
Legacy ==
    [content |-> [title |-> <<"l", "e", "g", "a", "c", "y">>, id |-> <<>>, updated |-> 0,
                  folders |-> <<>>],
     mtime |-> 0]

LegacyTree ==
    [dirs |-> {<<>>, <<OldDir>>, <<OldDir, SubDir>>},
     files |-> [q \in {<<OldDir, SubDir, GoneTxt>>, <<NotesMd>>, <<TodoTxt>>} |-> Legacy]]

InitTrees == {EmptyTree, LegacyTree}

(***************************************************************************)
(* The note writer (package writer), the transcript writer (package        *)
(* transcript) and the transcripts command (cmd/export.go)                 *)
(***************************************************************************)

MaxNameLen == 100

MdExt == <<".", "m", "d">>

Digits == <<"0", "1", "2", "3", "4", "5", "6", "7", "8", "9">>

\* fmt.Sprintf("%d", n) for n >= 0
RECURSIVE Itoa(_)
Itoa(n) ==
    IF n < Len(Digits) THEN <<Digits[n + 1]>>
    ELSE Itoa(n \div Len(Digits)) \o <<Digits[(n % Len(Digits)) + 1]>>

\* time.Parse(time.RFC3339, s).  A timestamp of the model is one digit, the
\* time it names; any other string does not parse.
ParseTime(s) ==
    IF Len(s) = 1 /\ \E d \in 1..Len(Digits) : Digits[d] = s[1]
    THEN [ok |-> TRUE, t |-> (CHOOSE d \in 1..Len(Digits) : Digits[d] = s[1]) - 1]
    ELSE [ok |-> FALSE, t |-> 0]

\* writer.sanitizeFilename
sanitizeFilename(title, id) ==
    LET n0 == TrimSpace(title)
        n1 == IF n0 = <<>> THEN id ELSE n0
        n2 == Trim(CollapseUnderscores(ReplaceInvalid(n1)), {"_"})
        n3 == IF n2 = <<>> THEN Untitled ELSE n2
    IN  Truncate(n3, MaxNameLen)

\* writer.makeUnique over a map[string]int
makeUnique(filename, used) ==
    IF filename \in DOMAIN used
    THEN filename \o <<"_">> \o Itoa(used[filename] + 1)
    ELSE filename

\* usedFilenames[filename]++ (a missing key reads as 0)
Increment(used, filename) ==
    [x \in DOMAIN used \cup {filename} |->
        IF x = filename
        THEN (IF filename \in DOMAIN used THEN used[filename] ELSE 0) + 1
        ELSE used[x]]

\* writer.shouldUpdateFile on a filesystem that answers every call
writerShouldUpdateFile(fs_files, filePath, updatedAt) ==
    IF filePath \notin DOMAIN fs_files THEN TRUE
    ELSE IF ~ParseTime(updatedAt).ok THEN TRUE
    ELSE ParseTime(updatedAt).t > fs_files[filePath].mtime

\* converter.ToMarkdown: frontmatter, title line and content of the document
ToMarkdown(d) ==
    <<[kind |-> "markdown", id |-> d.ID, title |-> d.Title, updated |-> d.UpdatedAt,
       text |-> d.Text]>>

\* transcript.generateFilename
transcriptGenerateFilename(title, id) == IF title # <<>> THEN title ELSE id

\* transcript.sanitizeFilename, and sanitizeFilename of cmd/export.go
transcriptSanitizeFilename(name) == Truncate(ReplaceInvalid(name), MaxNameLen)

\* used[filename] of a map[string]bool (a missing key reads as false)
Used(used, filename) == filename \in DOMAIN used /\ used[filename]

\* transcript.makeUnique, and makeUnique of cmd/export.go: the loop from
\* counter on
RECURSIVE makeUniqueFrom(_, _, _)
makeUniqueFrom(filename, used, counter) ==
    LET uniqueName == filename \o <<"_">> \o Itoa(counter)
    IN  IF ~Used(used, uniqueName) THEN uniqueName
        ELSE makeUniqueFrom(filename, used, counter + 1)

transcriptMakeUnique(filename, used) ==
    IF ~Used(used, filename) THEN filename ELSE makeUniqueFrom(filename, used, 2)

\* usedFilenames[filename] = true
MarkUsed(used, filename) ==
    [x \in DOMAIN used \cup {filename} |-> IF x = filename THEN TRUE ELSE used[x]]

\* transcript.shouldUpdateFile, and shouldUpdateFile of cmd/export.go
transcriptShouldUpdateFile(fs_files, d, filePath) ==
    IF filePath \notin DOMAIN fs_files THEN TRUE
    ELSE IF ~ParseTime(d.UpdatedAt).ok THEN TRUE
    ELSE ParseTime(d.UpdatedAt).t > fs_files[filePath].mtime

\* formatTranscript without its test for empty content: the header alone
formatTranscriptHeaderOnly(d) ==
    <<[kind |-> "notes", id |-> d.ID, title |-> d.Title, updated |-> d.UpdatedAt,
       text |-> d.Text]>>

\* transcript.formatTranscript: the empty string for a document without
\* content, else the header and the content
formatTranscript(d) ==
    IF d.Text = <<>> THEN <<>>
    ELSE <<[kind |-> "notes", id |-> d.ID, title |-> d.Title, updated |-> d.UpdatedAt,
            text |-> d.Text]>>

\* transcript.FormatTranscript: the empty string when there is no segment
FormatTranscript(d, segments) ==
    IF Len(segments) = 0 THEN <<>>
    ELSE <<[kind |-> "transcript", id |-> d.ID, title |-> d.Title,
            updated |-> d.UpdatedAt, text |-> segments]>>

\* api.Document and cache.Document, cut to the fields the writers read.
\* Text is the content of the notes, or the transcript's segments.
Document(id, title, updatedAt, text) ==
    [ID |-> id, Title |-> title, UpdatedAt |-> updatedAt, Text |-> text]

\* cache.CacheData: the documents and the transcripts by document id
CacheData(ds, known) ==
    [Documents |-> [id \in { ds[n].ID : n \in 1..Len(ds) } \cap known |->
                      ds[CHOOSE n \in 1..Len(ds) : ds[n].ID = id]],
     Transcripts |-> [id \in { ds[n].ID : n \in 1..Len(ds) } |->
                        ds[CHOOSE n \in 1..Len(ds) : ds[n].ID = id].Text]]

\* The inputs of the writers
MaxExports == 2

Rep(c, n) == [x \in 1..n |-> c]

TitleM == <<"M">>
TitleM2 == <<"M", "_", "2">>
SomeText == <<"x">>

DocA == Document(<<"a", "1">>, TitleM, <<"0">>, SomeText)
DocB == Document(<<"b", "2">>, TitleM, <<"0">>, SomeText)
DocC == Document(<<"c", "3">>, TitleM, <<"9">>, SomeText)
DocD == Document(<<"d", "4">>, TitleM2, <<"0">>, SomeText)
DocE == Document(<<"e", "5">>, TitleM, <<>>, <<>>)

\* Documents whose titles collide, in every order
Colliding == {DocA, DocB, DocC, DocD}

CollidingLists ==
    { <<a>> : a \in Colliding }
    \cup { <<ab[1], ab[2]>> : ab \in { x \in Colliding \X Colliding : x[1] # x[2] } }
    \cup { <<t[1], t[2], t[3]>> :
             t \in { x \in Colliding \X Colliding \X Colliding :
                       x[1] # x[2] /\ x[1] # x[3] /\ x[2] # x[3] } }
    \cup { <<DocA, DocE>>, <<DocE, DocA>>, <<DocA, DocB, DocC, DocE>> }

\* Titles and ids that exercise the filename policy
PolicyTitles ==
    { <<>>, <<" ", " ">>, <<" ", "M", " ">>, <<"a", "/", "b">>, <<"/", "/">>,
      <<"_", "x", "_", "_", "y", "_", ":">>, <<"a", ":", "?", "b">>,
      <<"\t", "a", "\n", "b", "\n">>,
      Rep("a", MaxNameLen + 50),
      Rep("a", MaxNameLen - 1) \o <<"/", "b">>,
      Rep("a", MaxNameLen - 1) \o <<"b", "c">>,
      Rep("a", MaxNameLen) }

PolicyIds == { <<"f", "6">>, <<>>, <<"/", "g", "_", "_", "7", "/">> }

PolicyLists ==
    { <<Document(id, title, <<"0">>, SomeText)>> : title \in PolicyTitles, id \in PolicyIds }

DocumentLists == CollidingLists \cup PolicyLists

\* The caches of the transcripts command: every document of a list has a
\* transcript, and the cache knows every document or all but DocB.
Caches ==
    { CacheData(ds, known) :
        ds \in DocumentLists,
        known \in { { DocA.ID, DocB.ID, DocC.ID, DocD.ID, DocE.ID } \cup PolicyIds,
                    { DocA.ID, DocC.ID, DocD.ID, DocE.ID } \cup PolicyIds } }

\* What outputDir holds before the first export: nothing, or files of an
\* earlier export.
OldNote == [content |-> <<[kind |-> "markdown", id |-> DocA.ID, title |-> TitleM,
                           updated |-> <<"0">>, text |-> <<>>]>>,
            mtime |-> 1]

OutputTrees ==
    { <<>>, [q \in {TitleM \o MdExt, TitleM \o TxtExt} |-> OldNote] }

(***************************************************************************)
(* The ProseMirror converter (package prosemirror)                         *)
(***************************************************************************)

\* What a call returns when it panics: strings.Repeat with a negative count.
Panic == <<"panic: strings: negative Repeat count">>

\* strings.Repeat(s, count)
RECURSIVE Repeat(_, _)
Repeat(s, count) ==
    IF count < 0 THEN Panic
    ELSE IF count = 0 THEN <<>>
    ELSE s \o Repeat(s, count - 1)

\* strings.Join(elems, sep); a panic in the computation of an element is
\* the panic of the whole.
RECURSIVE JoinStrings(_, _)
JoinStrings(elems, sep) ==
    IF \E e \in 1..Len(elems) : elems[e] = Panic THEN Panic
    ELSE IF elems = <<>> THEN <<>>
    ELSE IF Len(elems) = 1 THEN elems[1]
    ELSE elems[1] \o sep \o JoinStrings(Tail(elems), sep)

HasPrefix(s, prefix) == Len(s) >= Len(prefix) /\ SubSeq(s, 1, Len(prefix)) = prefix

\* strings.Contains(s, substr)
Contains(s, substr) ==
    \E at \in 0..(Len(s) - Len(substr)) : SubSeq(s, at + 1, at + Len(substr)) = substr

\* regexp.MustCompile(`\n{3,}`).ReplaceAllString(s, "\n\n")
RECURSIVE CollapseNewlines(_)
CollapseNewlines(s) ==
    IF s = <<>> THEN <<>>
    ELSE IF s[1] # "\n" THEN <<s[1]>> \o CollapseNewlines(Tail(s))
    ELSE LET run == CHOOSE r \in 1..Len(s) :
                        /\ \A x \in 1..r : s[x] = "\n"
                        /\ (r = Len(s) \/ s[r + 1] # "\n")
             rest == SubSeq(s, run + 1, Len(s))
         IN  (IF run >= 3 THEN <<"\n", "\n">> ELSE SubSeq(s, 1, run))
             \o CollapseNewlines(rest)

\* strings.Repeat("\t", indentLevel), with two spaces for the tab
IndentSpaces(indentLevel) == Repeat(<<" ", " ">>, indentLevel)

\* indent := strings.Repeat("\t", indentLevel)
Indent(indentLevel) == Repeat(<<"\t">>, indentLevel)

\* api.ProseMirrorNode.  ContentNil tells a nil Content from an empty one.
\* Attrs is nil, or holds under "level" nothing, a float64 or a string.
NoAttrs == [nil |-> TRUE, level |-> [kind |-> "absent", value |-> 0]]
LevelAttr(kind, value) == [nil |-> FALSE, level |-> [kind |-> kind, value |-> value]]

Node(type, children, text, attrs) ==
    [Type |-> type, Content |-> children, ContentNil |-> children = <<>>,
     Text |-> text, Attrs |-> attrs]

\* processNode
RECURSIVE processNode(_, _, _)
processNode(node, indentLevel, isTopLevel) ==
    LET children ==
            [c \in 1..Len(node.Content) |->
                processNode(node.Content[c],
                            IF node.Type = "listItem" /\ node.Content[c].Type = "bulletList"
                            THEN indentLevel + 1 ELSE indentLevel,
                            FALSE)]
        textContent ==
            IF Len(node.Content) > 0 THEN JoinStrings(children, <<>>)
            ELSE node.Text
        level ==
            IF ~node.Attrs.nil /\ node.Attrs.level.kind = "float64"
            THEN node.Attrs.level.value
            ELSE 1
        \* the loop over the children of one list item
        ItemText(itemNode) ==
            LET plain == SelectSeq(itemNode.Content, LAMBDA c : c.Type # "bulletList")
                nested == SelectSeq(itemNode.Content, LAMBDA c : c.Type = "bulletList")
                childContents == [c \in 1..Len(plain) |->
                                    processNode(plain[c], indentLevel, FALSE)]
                nestedLists == [c \in 1..Len(nested) |->
                                    <<"\n">> \o processNode(nested[c], indentLevel + 1, FALSE)]
                kept == SelectSeq(childContents, LAMBDA c : ~HasPrefix(c, <<"\n">>))
                firstText == IF kept = <<>> THEN <<>> ELSE kept[1]
            IN  Indent(indentLevel) \o <<"-", " ">> \o TrimSpace(firstText)
                \o JoinStrings(nestedLists, <<>>)
    IN  IF textContent = Panic THEN Panic
        ELSE IF node.Type = "heading"
        THEN IF level < 0 THEN Panic
             ELSE Repeat(<<"#">>, level) \o <<" ">> \o TrimSpace(textContent)
                  \o (IF isTopLevel THEN <<"\n", "\n">> ELSE <<"\n">>)
        ELSE IF node.Type = "paragraph"
        THEN textContent \o (IF isTopLevel THEN <<"\n", "\n">> ELSE <<>>)
        ELSE IF node.Type = "bulletList"
        THEN IF node.ContentNil THEN <<>>
             ELSE LET listItems == SelectSeq(node.Content, LAMBDA c : c.Type = "listItem")
                      items == [c \in 1..Len(listItems) |-> ItemText(listItems[c])]
                  IN  JoinStrings(items, <<"\n">>)
                      \o (IF isTopLevel THEN <<"\n", "\n">> ELSE <<>>)
        ELSE IF node.Type = "text"
        THEN node.Text
        ELSE textContent

\* api.ProseMirrorDoc behind a pointer: IsNil is the nil pointer.
ProseMirrorDoc(type, children) ==
    [IsNil |-> FALSE, Type |-> type, Content |-> children, ContentNil |-> children = <<>>]

NilDoc == [IsNil |-> TRUE, Type |-> "", Content |-> <<>>, ContentNil |-> TRUE]

\* ConvertToMarkdown
ConvertToMarkdown(d) ==
    IF d.IsNil \/ d.Type # "doc" \/ d.ContentNil THEN <<>>
    ELSE LET output == [c \in 1..Len(d.Content) |-> processNode(d.Content[c], 0, TRUE)]
             result == JoinStrings(output, <<>>)
         IN  IF result = Panic THEN Panic
             ELSE TrimSpace(CollapseNewlines(result)) \o <<"\n">>

\* The documents the converter is given
MaxDepth == 3

Text(t) == Node("text", <<>>, t, NoAttrs)
Paragraph(kids) == Node("paragraph", kids, <<>>, NoAttrs)
Heading(attrs, kids) == Node("heading", kids, <<>>, attrs)
ListItem(kids) == Node("listItem", kids, <<>>, NoAttrs)
BulletList(kids) == Node("bulletList", kids, <<>>, NoAttrs)
Blockquote(kids) == Node("blockquote", kids, <<>>, NoAttrs)

\* A node whose Content is there and empty ("content": [])
EmptyContent(node) == [node EXCEPT !.ContentNil = FALSE]

\* The paragraph of an item: one text node
Para(t) == Paragraph(<<Text(t)>>)

\* Lists of one or two items down to depth d below the list itself.  The
\* first item may hold a nested list of the same shape, the second a nested
\* list of one item.  The items of the list at depth n read An and Bn.
RECURSIVE NestedLists(_, _)
NestedLists(n, d) ==
    LET deeper == IF n = d THEN {} ELSE NestedLists(n + 1, d)
        leaf == BulletList(<<ListItem(<<Para(<<"C">> \o Itoa(n + 1))>>)>>)
        firsts == { ListItem(<<Para(<<"A">> \o Itoa(n))>>) }
                  \cup { ListItem(<<Para(<<"A">> \o Itoa(n)), l>>) : l \in deeper }
        seconds == { ListItem(<<Para(<<"B">> \o Itoa(n))>>) }
                   \cup (IF n = d THEN {}
                         ELSE { ListItem(<<Para(<<"B">> \o Itoa(n)), leaf>>) })
    IN  { BulletList(<<f>>) : f \in firsts }
        \cup { BulletList(<<f, g>>) : f \in firsts, g \in seconds }

LevelAttrs ==
    { NoAttrs, LevelAttr("absent", 0), LevelAttr("string", 2) }
    \cup { LevelAttr("float64", v) : v \in {-1, 0, 1, 2, 6, 7} }

OtherNodes ==
    { Heading(a, <<Text(<<"H">>)>>) : a \in LevelAttrs }
    \cup { Para(<<"p">>),
           Paragraph(<<>>),
           Paragraph(<<Text(<<"a">>), Text(<<"b">>)>>),
           Text(<<"t">>),
           Blockquote(<<Para(<<"u">>), Para(<<"v">>)>>),
           Blockquote(<<>>),
           Blockquote(<<Heading(LevelAttr("float64", 2), <<Text(<<"h">>)>>)>>),
           Blockquote(<<Para(<<"w">>), Heading(LevelAttr("float64", -1), <<Text(<<"g">>)>>)>>),
           ListItem(<<Para(<<"i">>)>>),
           BulletList(<<>>),
           EmptyContent(BulletList(<<>>)),
           BulletList(<<ListItem(<<Para(<<"x">>), Para(<<"y">>)>>)>>),
           BulletList(<<Para(<<"z">>)>>),
           BulletList(<<ListItem(<<Para(<<"k">>)>>), Para(<<"z">>)>>),
           BulletList(<<ListItem(<<BulletList(<<ListItem(<<Para(<<"n">>)>>)>>)>>)>>),
           BulletList(<<ListItem(<<Heading(LevelAttr("float64", 2), <<Text(<<"j">>)>>)>>)>>),
           BulletList(<<ListItem(<<Para(<<" ", "s", " ">>)>>)>>),
           BulletList(<<ListItem(<<Para(<<"\n", "r">>)>>)>>) }

TopLevelNodes == NestedLists(0, MaxDepth) \cup OtherNodes

ProseMirrorDocs ==
    { NilDoc,
      ProseMirrorDoc("doc", <<>>),
      EmptyContent(ProseMirrorDoc("doc", <<>>)),
      ProseMirrorDoc("paragraph", <<Para(<<"p">>)>>) }
    \cup { ProseMirrorDoc("doc", <<node>>) : node \in TopLevelNodes }
    \cup { ProseMirrorDoc("doc", <<Para(<<"p">>), node>>) : node \in TopLevelNodes }
    \cup { ProseMirrorDoc("doc", <<node, Para(<<"q">>)>>) : node \in TopLevelNodes }

(***************************************************************************)
(* Content resolution (getNotesContent, transcript.formatTranscript)       *)
(***************************************************************************)

\* strings.ReplaceAll(s, old, new) for a non-empty old
RECURSIVE ReplaceAll(_, _, _)
ReplaceAll(s, old, new) ==
    IF Len(s) < Len(old) THEN s
    ELSE IF SubSeq(s, 1, Len(old)) = old
    THEN new \o ReplaceAll(SubSeq(s, Len(old) + 1, Len(s)), old, new)
    ELSE <<s[1]>> \o ReplaceAll(Tail(s), old, new)

\* htmlTagRegex.ReplaceAllString(html, "") with htmlTagRegex = `<[^>]*>`
RECURSIVE StripTags(_)
StripTags(s) ==
    IF s = <<>> THEN <<>>
    ELSE IF s[1] = "<" /\ \E c \in 2..Len(s) : s[c] = ">"
    THEN LET close == CHOOSE c \in 2..Len(s) :
                          s[c] = ">" /\ \A b \in 2..(c - 1) : s[b] # ">"
         IN  StripTags(SubSeq(s, close + 1, Len(s)))
    ELSE <<s[1]>> \o StripTags(Tail(s))

\* The entities stripHTML decodes, in its order
Entities ==
    << <<<<"&", "a", "m", "p", ";">>, <<"&">>>>,
       <<<<"&", "l", "t", ";">>, <<"<">>>>,
       <<<<"&", "g", "t", ";">>, <<">">>>>,
       <<<<"&", "q", "u", "o", "t", ";">>, <<"\"">>>>,
       <<<<"&", "#", "3", "9", ";">>, <<"'">>>>,
       <<<<"&", "n", "b", "s", "p", ";">>, <<" ">>>> >>

RECURSIVE DecodeFrom(_, _)
DecodeFrom(s, e) ==
    IF e > Len(Entities) THEN s
    ELSE DecodeFrom(ReplaceAll(s, Entities[e][1], Entities[e][2]), e + 1)

\* transcript.stripHTML
stripHTML(html) == TrimSpace(DecodeFrom(StripTags(html), 1))

\* The text below a node, in document order
RECURSIVE PlainTextOf(_)
PlainTextOf(node) ==
    IF Len(node.Content) > 0
    THEN JoinStrings([c \in 1..Len(node.Content) |-> PlainTextOf(node.Content[c])], <<>>)
    ELSE node.Text

\* prosemirror.ConvertToPlainText: the text of the top-level nodes, one per
\* line; nothing for a tree that is absent or has no nodes
ConvertToPlainText(d) ==
    IF d.IsNil \/ d.Type # "doc" \/ d.ContentNil THEN <<>>
    ELSE TrimSpace(JoinStrings([c \in 1..Len(d.Content) |-> PlainTextOf(d.Content[c])],
                               <<"\n">>))

\* api.LastViewedPanel behind a pointer
LastViewedPanel(content, originalContent) ==
    [IsNil |-> FALSE, Content |-> content, OriginalContent |-> originalContent]

NilPanel == [IsNil |-> TRUE, Content |-> NilDoc, OriginalContent |-> <<>>]

\* api.Document, cut to its content representations
ApiDocument(notesPlain, notes, panel, content) ==
    [NotesPlain |-> notesPlain, Notes |-> notes, LastViewedPanel |-> panel,
     Content |-> content]

\* getNotesContent of cmd/export.go
getNotesContent(d) ==
    IF d.NotesPlain # <<>> THEN d.NotesPlain
    ELSE IF ~d.Notes.IsNil THEN ConvertToPlainText(d.Notes)
    ELSE IF ~d.LastViewedPanel.IsNil /\ ~d.LastViewedPanel.Content.IsNil
    THEN ConvertToPlainText(d.LastViewedPanel.Content)
    ELSE IF ~d.LastViewedPanel.IsNil /\ d.LastViewedPanel.OriginalContent # <<>>
    THEN d.LastViewedPanel.OriginalContent
    ELSE d.Content

\* The content transcript.formatTranscript resolves before it writes the
\* header
formatTranscriptContent(d) ==
    LET c1 == IF d.NotesPlain # <<>> THEN TrimSpace(d.NotesPlain) ELSE <<>>
        c2 == IF c1 = <<>> /\ ~d.Notes.IsNil
              THEN TrimSpace(ConvertToPlainText(d.Notes)) ELSE c1
        c3 == IF /\ c2 = <<>>
                 /\ ~d.LastViewedPanel.IsNil
                 /\ d.LastViewedPanel.OriginalContent # <<>>
              THEN stripHTML(d.LastViewedPanel.OriginalContent) ELSE c2
    IN  IF c3 = <<>> /\ d.Content # <<>> THEN d.Content ELSE c3

\* The documents whose content is resolved
EmptyTreeDoc == ProseMirrorDoc("doc", <<>>)

NotesTrees ==
    { NilDoc, EmptyTreeDoc, EmptyContent(EmptyTreeDoc),
      ProseMirrorDoc("doc", <<Paragraph(<<>>)>>),
      ProseMirrorDoc("doc", <<Para(<<"t">>)>>) }

Markup == <<"<", "b", ">", "h", "<", "/", "b", ">">>

Panels ==
    { NilPanel,
      LastViewedPanel(NilDoc, <<>>),
      LastViewedPanel(ProseMirrorDoc("doc", <<Para(<<"v">>)>>), <<>>),
      LastViewedPanel(EmptyTreeDoc, Markup),
      LastViewedPanel(NilDoc, Markup),
      LastViewedPanel(NilDoc, <<"<", "p", ">", "<", "/", "p", ">">>),
      LastViewedPanel(NilDoc, <<"a", "&", "a", "m", "p", ";", "b">>) }

ApiDocuments ==
    { ApiDocument(np, notes, panel, content) :
        np \in { <<>>, <<"n">> }, notes \in NotesTrees, panel \in Panels,
        content \in { <<>>, <<"c">> } }

(***************************************************************************)
(* State                                                                   *)
(***************************************************************************)

VARIABLES
    files,          \* the regular files: path |-> [content, mtime]
    dirs,           \* the directories
    clock,          \* the time; also the number of runs started
    pc,             \* where Sync is: idle, write, remove, sweep, done, failed
    docs,           \* Sync's argument docs
    allDocIDs,      \* Sync's argument allDocIDs
    existingFiles,  \* the existing-file index
    stats,          \* Sync's stats
    docStats,       \* processDocument's stats
    i,              \* index of the document being processed
    j,              \* index into its targetPaths
    k,              \* index into its existingPaths
    sweepLeft,      \* ids the orphan sweep has yet to visit
    sweepId,        \* the id the orphan sweep is at, or NoId
    err,            \* the path the returned error names, or NoErr
    fault,          \* the last filesystem operation that failed in this run
    ops,            \* the filesystem mutations of this run, in order
    start,          \* files and dirs as they were when this run began
    prev,           \* the run before this one: its arguments and outcome
    mode,           \* the export that runs: none, notes, transcript, transcripts
    phase,          \* where the export is: idle, loop, done
    documents,      \* the documents given to writer.Write or transcript.Write
    cacheData,      \* the cache the transcripts command has read
    idx,            \* index of the document the loop is at
    keysLeft,       \* keys of cacheData.Transcripts the range has yet to visit
    usedFilenames,  \* the export's usedFilenames map
    assigned,       \* the filename each document was given in this export
    outFiles,       \* the files of the export's outputDir: name |-> [content, mtime]
    count,          \* the transcripts command's count of files written
    time,           \* the time of the exports
    startFiles,     \* outFiles as it was when this export began
    first,          \* the export before this one: its input and outcome
    pmDoc,          \* the document given to ConvertToMarkdown
    pmOut,          \* what ConvertToMarkdown returned, or NotConverted
    apiDoc,         \* the API document whose content is resolved
    notesContent,   \* what getNotesContent returned, or NotResolved
    transcriptContent, \* the content formatTranscript resolved, or NotResolved
    gpc,            \* where GetDocuments is: idle, token, request, returned
    offset,         \* GetDocuments' offset
    allDocuments,   \* GetDocuments' allDocuments
    pages,          \* the requests answered so far: offset asked and page sent
    fetched,        \* what GetDocuments returned: documents and error
    rpc,            \* where runExport is: idle, fetch, cache, sync, returned
    apiDocs,        \* runExport's apiDocs
    calls,          \* the number of Sync runs when runExport began
    before,         \* files and dirs as they were when runExport began
    returned,       \* the error runExport returned, nil, or NotReturned
    exportDocs,     \* runExport's exportDocs
    seen            \* how GetDocuments and ReadCache went in this runExport

syncVars == <<files, dirs, clock, pc, docs, allDocIDs, existingFiles, stats,
              docStats, i, j, k, sweepLeft, sweepId, err, fault, ops, start, prev>>

exportVars == <<mode, phase, documents, cacheData, idx, keysLeft, usedFilenames,
                assigned, outFiles, count, time, startFiles, first>>

convVars == <<pmDoc, pmOut>>

resolveVars == <<apiDoc, notesContent, transcriptContent>>

fetchVars == <<gpc, offset, allDocuments, pages, fetched>>

runVars == <<rpc, apiDocs, exportDocs, calls, before, returned, seen>>

vars == <<syncVars, exportVars, convVars, resolveVars, fetchVars, runVars>>

NoErr == <<"no error">>
NoId == <<"no id">>
NoFault == [op |-> "none", path |-> <<>>]
NoStats == [Added |-> 0, Updated |-> 0, Moved |-> 0, Deleted |-> 0, Skipped |-> 0]
NoRun == [docs |-> <<>>, valid |-> {}, pc |-> "idle", stats |-> NoStats,
          ops |-> <<>>]

NoCache == [Documents |-> <<>>, Transcripts |-> <<>>]
NoExport == [mode |-> "none", phase |-> "idle", documents |-> <<>>, cacheData |-> NoCache,
             assigned |-> <<>>, count |-> 0, startFiles |-> <<>>]
NotConverted == <<"not converted">>
NoDocument == ApiDocument(<<>>, NilDoc, NilPanel, <<>>)
NotResolved == <<"not resolved">>
NotReturned == "not returned"
NotFetched == [docs |-> <<>>, err |-> "not returned"]

\* No Sync has run on the tree t.
SyncIdle(t) ==
    /\ files = t.files
    /\ dirs = t.dirs
    /\ clock = 0
    /\ pc = "idle"
    /\ docs = <<>>
    /\ allDocIDs = {}
    /\ existingFiles = <<>>
    /\ stats = NoStats
    /\ docStats = NoStats
    /\ i = 1
    /\ j = 1
    /\ k = 1
    /\ sweepLeft = {}
    /\ sweepId = NoId
    /\ err = NoErr
    /\ fault = NoFault
    /\ ops = <<>>
    /\ start = [files |-> files, dirs |-> dirs]
    /\ prev = NoRun

\* No export has run on the directory that holds dir.
ExportIdle(dir) ==
    /\ mode = "none"
    /\ phase = "idle"
    /\ documents = <<>>
    /\ cacheData = NoCache
    /\ idx = 1
    /\ keysLeft = {}
    /\ usedFilenames = <<>>
    /\ assigned = <<>>
    /\ outFiles = dir
    /\ count = 0
    /\ time = 1
    /\ startFiles = dir
    /\ first = NoExport

\* The converter has been given nothing.
ConvIdle ==
    /\ pmDoc = NilDoc
    /\ pmOut = NotConverted

\* No content has been resolved.
ResolveIdle ==
    /\ apiDoc = NoDocument
    /\ notesContent = NotResolved
    /\ transcriptContent = NotResolved

\* GetDocuments has not been called.
FetchIdle ==
    /\ gpc = "idle"
    /\ offset = 0
    /\ allDocuments = <<>>
    /\ pages = <<>>
    /\ fetched = NotFetched

\* runExport has not been called.
RunIdle ==
    /\ rpc = "idle"
    /\ apiDocs = <<>>
    /\ calls = 0
    /\ before = [files |-> files, dirs |-> dirs]
    /\ returned = NotReturned
    /\ exportDocs = <<>>
    /\ seen = [fetch |-> "none", cache |-> "none"]

Init ==
    /\ \E t \in InitTrees : SyncIdle(t)
    /\ ExportIdle(<<>>)
    /\ ConvIdle
    /\ ResolveIdle
    /\ FetchIdle
    /\ RunIdle

(***************************************************************************)
(* Writer.Sync                                                             *)
(***************************************************************************)

\* The document processDocument is working on, and its locals.
doc == docs[i]
filename == generateFilename(doc.Title, doc.ID)
existingPaths == Lookup(existingFiles, doc.ID)
targetPaths == getTargetPaths(doc.Folders, filename)
existingPathSet == SeqToSet(existingPaths)
targetPathSet == SeqToSet(targetPaths)

\* if !allDocIDs[id]
IsOrphan(id, valid) == id \notin valid

\* The ids whose paths step 3 deletes.
Orphans(index, valid) == { id \in DOMAIN index : IsOrphan(id, valid) }

Bump(st, field) == [st EXCEPT ![field] = @ + 1]

AddStats(a, b) ==
    [Added |-> a.Added + b.Added, Updated |-> a.Updated + b.Updated,
     Moved |-> a.Moved + b.Moved, Deleted |-> a.Deleted + b.Deleted,
     Skipped |-> a.Skipped + b.Skipped]

Op(what, path, id) == [op |-> what, path |-> path, id |-> id]

\* Sync is called: outputDir exists, the tree is scanned, the loop over the
\* documents begins (or the sweep, when there is no document).
StartSync(in) ==
    /\ pc \in {"idle", "done", "failed"}
    /\ UNCHANGED <<exportVars, convVars, resolveVars, fetchVars, runVars>>
    /\ clock < MaxRuns
    /\ clock' = clock + 1
    /\ prev' = [docs |-> docs, valid |-> allDocIDs, pc |-> pc, stats |-> stats,
                ops |-> ops]
    /\ start' = [files |-> files, dirs |-> dirs]
    /\ docs' = in.docs
    /\ allDocIDs' = in.valid
    /\ existingFiles' = scanExistingFiles(dirs, files)
    /\ stats' = NoStats
    /\ docStats' = NoStats
    /\ i' = 1
    /\ j' = 1
    /\ k' = 1
    /\ err' = NoErr
    /\ fault' = NoFault
    /\ sweepId' = NoId
    /\ ops' = <<>>
    /\ IF in.docs = <<>>
       THEN pc' = "sweep" /\ sweepLeft' = Orphans(existingFiles', in.valid)
       ELSE pc' = "write" /\ sweepLeft' = {}
    /\ UNCHANGED <<files, dirs>>

\* Abort with `break` in place of `return`: the loop over the documents is
\* left, and the orphan sweep and the pruning go ahead.
AbortKeepsGoing(path) ==
    /\ pc' = "sweep"
    /\ sweepLeft' = Orphans(existingFiles, allDocIDs)
    /\ sweepId' = NoId
    /\ err' = NoErr
    /\ UNCHANGED <<clock, docs, allDocIDs, existingFiles, stats, docStats,
                   i, j, k, start, prev>>

\* return stats, fmt.Errorf("... %s: %w", path, err)
Abort(path) ==
    /\ pc' = "failed"
    /\ err' = path
    /\ UNCHANGED <<clock, docs, allDocIDs, existingFiles, stats, docStats,
                   i, j, k, sweepLeft, sweepId, start, prev>>

\* The filesystem fails the operation what on path.
Fails(what, path) == fault' = [op |-> what, path |-> path]

\* shouldUpdateFile: a failed Stat counts as "write it".
shouldUpdateFile(fs_files, filePath, docUpdatedAt, statFails) ==
    IF statFails \/ filePath \notin DOMAIN fs_files THEN TRUE
    ELSE docUpdatedAt > fs_files[filePath].mtime

\* One round of processDocument's loop over targetPaths, on the files
\* fs_files, which the operations of log have left.  f is the operation that
\* fails in this round: none, mkdir, stat, open (WriteFile fails before it
\* touches the file) or write (WriteFile fails after it has truncated the
\* file).
WriteRound(f, fs_files, log) ==
    /\ pc = "write"
    /\ UNCHANGED <<exportVars, convVars, resolveVars, fetchVars, runVars>>
    /\ LET targetPath == targetPaths[j]
           dir == Dir(targetPath)
           indexed == targetPath \in existingPathSet
           shouldWrite == ~indexed \/ shouldUpdateFile(fs_files, targetPath, doc.UpdatedAt,
                                                       f = "stat")
           made == MkdirAll(dirs, dir) \ dirs
           mkdirOps == IF made = {} THEN <<>> ELSE <<Op("mkdir", dir, doc.ID)>>
           next == IF j = Len(targetPaths) THEN "remove" ELSE "write"
       IN  /\ f = "stat" => indexed
           /\ f \in {"open", "write"} => shouldWrite
           /\ IF f = "mkdir" \/ ~MkdirAllPossible(fs_files, dir)
              THEN /\ Fails("mkdir", dir)
                   /\ Abort(dir)
                   /\ files' = fs_files
                   /\ ops' = ops \o log
                   /\ UNCHANGED dirs
              ELSE /\ dirs' = MkdirAll(dirs, dir)
                   /\ IF ~shouldWrite
                      THEN /\ docStats' = Bump(docStats, "Skipped")
                           /\ j' = j + 1
                           /\ pc' = next
                           /\ files' = fs_files
                           /\ ops' = ops \o log \o mkdirOps
                           /\ UNCHANGED <<clock, docs, allDocIDs, existingFiles,
                                          stats, i, k, sweepLeft, sweepId, err, fault,
                                          start, prev>>
                      ELSE IF f = "open" \/ targetPath \in dirs'
                      THEN /\ Fails("write", targetPath)
                           /\ Abort(targetPath)
                           /\ files' = fs_files
                           /\ ops' = ops \o log \o mkdirOps
                      ELSE IF f = "write"
                      THEN /\ Fails("write", targetPath)
                           /\ Abort(targetPath)
                           /\ files' = WriteFile(fs_files, targetPath, Truncated, clock)
                           /\ ops' = ops \o log \o mkdirOps
                                         \o <<Op("truncate", targetPath, doc.ID)>>
                      ELSE /\ files' = WriteFile(fs_files, targetPath, doc.Content, clock)
                           /\ docStats' = Bump(docStats, IF indexed THEN "Updated" ELSE "Added")
                           /\ j' = j + 1
                           /\ pc' = next
                           /\ ops' = ops \o log \o mkdirOps
                                         \o <<Op("write", targetPath, doc.ID)>>
                           /\ fault' = IF f = "stat" THEN [op |-> "stat", path |-> targetPath]
                                       ELSE fault
                           /\ UNCHANGED <<clock, docs, allDocIDs, existingFiles,
                                          stats, i, k, sweepLeft, sweepId, err, start, prev>>

\* processDocument as a move: the old paths that are no target are removed
\* before the first target path is written.
WriteTargetAfterRemove(f) ==
    LET stale == SelectSeq(existingPaths,
                           LAMBDA q : q \notin targetPathSet /\ q \in DOMAIN files)
    IN  IF j = 1
        THEN WriteRound(f, [q \in DOMAIN files \ SeqToSet(stale) |-> files[q]],
                        [n \in 1..Len(stale) |-> Op("remove", stale[n], doc.ID)])
        ELSE WriteRound(f, files, <<>>)

\* One round of processDocument's loop over targetPaths.
WriteTarget(f) == WriteRound(f, files, <<>>)

\* One round of processDocument's loop over existingPaths.
RemoveOld(f) ==
    /\ pc = "remove"
    /\ UNCHANGED <<exportVars, convVars, resolveVars, fetchVars, runVars>>
    /\ k <= Len(existingPaths)
    /\ LET existingPath == existingPaths[k]
           stale == existingPath \notin targetPathSet
       IN  /\ f = "remove" => stale
           /\ IF ~stale
              THEN /\ k' = k + 1
                   /\ UNCHANGED <<files, dirs, clock, pc, docs, allDocIDs, existingFiles,
                                  stats, docStats, i, j, sweepLeft, sweepId, err, fault,
                                  ops, start, prev>>
              ELSE IF f = "remove" \/ existingPath \notin DOMAIN files
              THEN /\ Fails("remove", existingPath)
                   /\ Abort(existingPath)
                   /\ UNCHANGED <<files, dirs, ops>>
              ELSE /\ files' = Remove(files, existingPath)
                   /\ docStats' = Bump(docStats, "Moved")
                   /\ k' = k + 1
                   /\ ops' = Append(ops, Op("remove", existingPath, doc.ID))
                   /\ UNCHANGED <<dirs, clock, pc, docs, allDocIDs, existingFiles,
                                  stats, i, j, sweepLeft, sweepId, err, fault, start, prev>>

\* processDocument returns: the document's entry leaves the index and its
\* counts are added to the run's.
FinishDoc ==
    /\ pc = "remove"
    /\ UNCHANGED <<exportVars, convVars, resolveVars, fetchVars, runVars>>
    /\ k > Len(existingPaths)
    /\ existingFiles' = Delete(existingFiles, doc.ID)
    /\ stats' = AddStats(stats, docStats)
    /\ docStats' = NoStats
    /\ i' = i + 1
    /\ j' = 1
    /\ k' = 1
    /\ IF i = Len(docs)
       THEN pc' = "sweep" /\ sweepLeft' = Orphans(existingFiles', allDocIDs)
       ELSE pc' = "write" /\ sweepLeft' = {}
    /\ UNCHANGED <<files, dirs, clock, docs, allDocIDs, sweepId, err, fault, ops,
                   start, prev>>

\* One round of step 3's inner loop: the next path of the orphaned id is
\* removed.  Go ranges over the map in no fixed order, so the sweep may turn
\* to any id it has not visited once it is through with the paths of one.
SweepOrphan(id, f) ==
    /\ pc = "sweep"
    /\ UNCHANGED <<exportVars, convVars, resolveVars, fetchVars, runVars>>
    /\ id \in sweepLeft
    /\ sweepId \in {NoId, id}
    /\ LET paths == existingFiles[id]
           n == IF sweepId = NoId THEN 1 ELSE k
           path == paths[n]
       IN  IF f = "remove" \/ path \notin DOMAIN files
           THEN /\ Fails("remove", path)
                /\ Abort(path)
                /\ UNCHANGED <<files, dirs, ops>>
           ELSE /\ files' = Remove(files, path)
                /\ stats' = Bump(stats, "Deleted")
                /\ ops' = Append(ops, Op("remove", path, id))
                /\ k' = n + 1
                /\ IF n = Len(paths)
                   THEN sweepLeft' = sweepLeft \ {id} /\ sweepId' = NoId
                   ELSE sweepLeft' = sweepLeft /\ sweepId' = id
                /\ UNCHANGED <<dirs, clock, pc, docs, allDocIDs, existingFiles,
                               docStats, i, j, err, fault, start, prev>>

\* Step 4 with the pruning's error returned to the caller in place of being
\* logged.
CleanAndReturnFatal(f) ==
    /\ pc = "sweep"
    /\ UNCHANGED <<exportVars, convVars, resolveVars, fetchVars, runVars>>
    /\ sweepLeft = {}
    /\ dirs' = cleanEmptyFolders(dirs, files, f)
    /\ ops' = ops \o [n \in 1..Cardinality(dirs \ dirs') |-> Op("rmdir", <<>>, <<>>)]
    /\ fault' = IF f = "none" THEN fault ELSE [op |-> f, path |-> <<>>]
    /\ pc' = IF f = "none" THEN "done" ELSE "failed"
    /\ err' = IF f = "none" THEN err ELSE <<>>
    /\ UNCHANGED <<files, clock, docs, allDocIDs, existingFiles, stats, docStats,
                   i, j, k, sweepLeft, sweepId, start, prev>>

\* Step 4 and the return: whatever the pruning does, Sync returns stats, nil.
CleanAndReturn(f) ==
    /\ pc = "sweep"
    /\ UNCHANGED <<exportVars, convVars, resolveVars, fetchVars, runVars>>
    /\ sweepLeft = {}
    /\ dirs' = cleanEmptyFolders(dirs, files, f)
    /\ ops' = ops \o [n \in 1..Cardinality(dirs \ dirs') |-> Op("rmdir", <<>>, <<>>)]
    /\ fault' = IF f = "none" THEN fault ELSE [op |-> f, path |-> <<>>]
    /\ pc' = "done"
    /\ UNCHANGED <<files, clock, docs, allDocIDs, existingFiles, stats, docStats,
                   i, j, k, sweepLeft, sweepId, err, start, prev>>

Next ==
    \/ \E in \in Inputs : StartSync(in)
    \/ WriteTarget("none")
    \/ RemoveOld("none")
    \/ FinishDoc
    \/ \E id \in sweepLeft : SweepOrphan(id, "none")
    \/ CleanAndReturn("none")

Spec == Init /\ [][Next]_vars

(***************************************************************************)
(* The same runs on a filesystem whose operations may fail                 *)
(***************************************************************************)

FaultDocLists ==
    { <<>>,
      <<ExportDoc(Id8, TitleT, 0, <<>>)>>,
      <<ExportDoc(Id8, TitleT, 0, <<FolderA>>)>>,
      <<ExportDoc(Id8, TitleT, 0, <<FolderA, FolderB>>)>>,
      <<ExportDoc(Id8, TitleU, 2, <<FolderA>>)>>,
      <<ExportDoc(IdLong, TitleT, 0, <<FolderA>>)>>,
      <<ExportDoc(Id8, TitleT, 0, <<FolderA>>), ExportDoc(IdShort, TitleT, 0, <<FolderA>>)>>,
      <<ExportDoc(Id8, TitleT, 0, <<FolderA>>), ExportDoc(IdLong, TitleT, 0, <<FolderB>>)>> }

FaultInputs == { [docs |-> ds, valid |-> IdsOf(ds)] : ds \in FaultDocLists }

FaultNext ==
    \/ \E in \in FaultInputs : StartSync(in)
    \/ \E f \in {"none", "mkdir", "stat", "open", "write"} : WriteTarget(f)
    \/ \E f \in {"none", "remove"} : RemoveOld(f)
    \/ FinishDoc
    \/ \E id \in sweepLeft : \E f \in {"none", "remove"} : SweepOrphan(id, f)
    \/ \E f \in {"none", "readdir", "rmdir"} : CleanAndReturn(f)

FaultSpec == Init /\ [][FaultNext]_vars

(***************************************************************************)
(* writer.Write, transcript.Write and the transcripts command              *)
(***************************************************************************)

\* What the export that is running leaves behind as the export before the
\* next one.
ThisExport ==
    [mode |-> mode, phase |-> phase, documents |-> documents, cacheData |-> cacheData,
     assigned |-> assigned, count |-> count, startFiles |-> startFiles]

\* An export begins on the files dir holds: MkdirAll(outputDir) has
\* succeeded and usedFilenames is empty.
Begin(m, ds, cache, dir) ==
    /\ mode' = m
    /\ phase' = "loop"
    /\ documents' = ds
    /\ cacheData' = cache
    /\ idx' = 1
    /\ keysLeft' = DOMAIN cache.Transcripts
    /\ usedFilenames' = <<>>
    /\ assigned' = <<>>
    /\ outFiles' = dir
    /\ startFiles' = dir
    /\ count' = 0
    /\ time' = time + 1
    /\ first' = ThisExport
    /\ UNCHANGED <<syncVars, convVars, resolveVars, fetchVars, runVars>>

\* writer.Write(docs, outputDir, fs) is called.
StartWrite(ds) ==
    /\ phase = "idle"
    /\ Begin("notes", ds, NoCache, outFiles)

\* transcript.Write(documents, outputDir, fs) is called.
StartTranscriptWrite(ds) ==
    /\ phase = "idle"
    /\ Begin("transcript", ds, NoCache, outFiles)

\* The transcripts command has read the cache and calls writeTranscripts.
StartWriteTranscripts(cache) ==
    /\ phase = "idle"
    /\ Begin("transcripts", <<>>, cache, outFiles)

\* The export that has returned is run once more on the same input: on the
\* directory as it now is, or (replay) on a directory that holds what the
\* directory held when the export before began.
StartAgain(replay) ==
    /\ phase = "done"
    /\ time <= MaxExports
    /\ Begin(mode, documents, cacheData, IF replay THEN startFiles ELSE outFiles)

\* One round of the loop of writer.Write.
WriterWrite ==
    /\ phase = "loop"
    /\ mode = "notes"
    /\ idx <= Len(documents)
    /\ LET d == documents[idx]
           name == makeUnique(sanitizeFilename(d.Title, d.ID), usedFilenames)
           filePath == name \o MdExt
           shouldWrite == writerShouldUpdateFile(outFiles, filePath, d.UpdatedAt)
       IN  /\ usedFilenames' = Increment(usedFilenames, name)
           /\ assigned' = Append(assigned, name)
           /\ outFiles' = IF shouldWrite
                          THEN WriteFile(outFiles, filePath, ToMarkdown(d), time)
                          ELSE outFiles
    /\ idx' = idx + 1
    /\ UNCHANGED <<mode, phase, documents, cacheData, keysLeft, count, time,
                   startFiles, first, syncVars, convVars, resolveVars, fetchVars, runVars>>

\* One round of the loop of transcript.Write.
TranscriptWrite ==
    /\ phase = "loop"
    /\ mode = "transcript"
    /\ idx <= Len(documents)
    /\ LET d == documents[idx]
           name == transcriptMakeUnique(
                       transcriptSanitizeFilename(transcriptGenerateFilename(d.Title, d.ID)),
                       usedFilenames)
           filePath == name \o TxtExt
           content == formatTranscript(d)
       IN  /\ usedFilenames' = MarkUsed(usedFilenames, name)
           /\ assigned' = Append(assigned, name)
           /\ outFiles' = IF transcriptShouldUpdateFile(outFiles, d, filePath)
                             /\ content # <<>>
                          THEN WriteFile(outFiles, filePath, content, time)
                          ELSE outFiles
    /\ idx' = idx + 1
    /\ UNCHANGED <<mode, phase, documents, cacheData, keysLeft, count, time,
                   startFiles, first, syncVars, convVars, resolveVars, fetchVars, runVars>>

\* One round of the loop of writeTranscripts.  Go ranges over the map
\* cacheData.Transcripts in no fixed order: the round may be at any key the
\* range has not visited.
writeTranscripts(docID) ==
    /\ phase = "loop"
    /\ mode = "transcripts"
    /\ docID \in keysLeft
    /\ keysLeft' = keysLeft \ {docID}
    /\ LET segments == cacheData.Transcripts[docID]
           d == IF docID \in DOMAIN cacheData.Documents
                THEN cacheData.Documents[docID]
                ELSE Document(docID, docID, <<>>, <<>>)
           name == transcriptMakeUnique(
                       transcriptSanitizeFilename(IF d.Title = <<>> THEN d.ID ELSE d.Title),
                       usedFilenames)
           filePath == name \o TxtExt
           content == FormatTranscript(d, segments)
       IN  IF Len(segments) = 0
           THEN UNCHANGED <<usedFilenames, assigned, outFiles, count>>
           ELSE /\ usedFilenames' = MarkUsed(usedFilenames, name)
                /\ assigned' = [x \in DOMAIN assigned \cup {docID} |->
                                  IF x = docID THEN name ELSE assigned[x]]
                /\ IF transcriptShouldUpdateFile(outFiles, d, filePath) /\ content # <<>>
                   THEN /\ outFiles' = WriteFile(outFiles, filePath, content, time)
                        /\ count' = count + 1
                   ELSE UNCHANGED <<outFiles, count>>
    /\ UNCHANGED <<mode, phase, documents, cacheData, idx, time, startFiles, first,
                   syncVars, convVars, resolveVars, fetchVars, runVars>>

\* The loop is over: return nil.
ReturnNil ==
    /\ phase = "loop"
    /\ IF mode = "transcripts" THEN keysLeft = {} ELSE idx > Len(documents)
    /\ phase' = "done"
    /\ UNCHANGED <<mode, documents, cacheData, idx, keysLeft, usedFilenames, assigned,
                   outFiles, count, time, startFiles, first, syncVars, convVars, resolveVars, fetchVars, runVars>>

ExportInit ==
    /\ SyncIdle(EmptyTree)
    /\ \E dir \in OutputTrees : ExportIdle(dir)
    /\ ConvIdle
    /\ ResolveIdle
    /\ FetchIdle
    /\ RunIdle

ExportNext ==
    \/ \E ds \in DocumentLists : StartWrite(ds)
    \/ \E ds \in DocumentLists : StartTranscriptWrite(ds)
    \/ \E cache \in Caches : StartWriteTranscripts(cache)
    \/ \E replay \in BOOLEAN : StartAgain(replay)
    \/ WriterWrite
    \/ TranscriptWrite
    \/ \E docID \in keysLeft : writeTranscripts(docID)
    \/ ReturnNil

ExportSpec == ExportInit /\ [][ExportNext]_vars

(***************************************************************************)
(* The converter at work                                                   *)
(***************************************************************************)

\* A document arrives (the notes of an API document, or the content of its
\* last viewed panel).
Receive(d) ==
    /\ pmOut # NotConverted
    /\ pmDoc' = d
    /\ pmOut' = NotConverted
    /\ UNCHANGED <<syncVars, exportVars, resolveVars, fetchVars, runVars>>

\* prosemirror.ConvertToMarkdown(doc) is called and returns, or panics.
Convert ==
    /\ pmOut = NotConverted
    /\ pmOut' = ConvertToMarkdown(pmDoc)
    /\ UNCHANGED <<pmDoc, syncVars, exportVars, resolveVars, fetchVars, runVars>>

ConvInit ==
    /\ SyncIdle(EmptyTree)
    /\ ExportIdle(<<>>)
    /\ pmDoc \in ProseMirrorDocs
    /\ pmOut = NotConverted
    /\ ResolveIdle
    /\ FetchIdle
    /\ RunIdle

ConvNext ==
    \/ \E d \in ProseMirrorDocs : Receive(d)
    \/ Convert

ConvSpec == ConvInit /\ [][ConvNext]_vars

(***************************************************************************)
(* Content resolution at work                                              *)
(***************************************************************************)

ioVars == <<syncVars, exportVars, convVars>>

\* The export is at the next document of the API.
NextDocument(d) ==
    /\ notesContent # NotResolved \/ transcriptContent # NotResolved
    /\ apiDoc' = d
    /\ notesContent' = NotResolved
    /\ transcriptContent' = NotResolved
    /\ UNCHANGED <<ioVars, fetchVars, runVars>>

\* runExport calls getNotesContent(apiDoc).
GetNotesContent ==
    /\ notesContent = NotResolved
    /\ notesContent' = getNotesContent(apiDoc)
    /\ UNCHANGED <<apiDoc, transcriptContent, ioVars, fetchVars, runVars>>

\* transcript.Write calls formatTranscript(doc), which resolves the content.
FormatTranscriptContent ==
    /\ transcriptContent = NotResolved
    /\ transcriptContent' = formatTranscriptContent(apiDoc)
    /\ UNCHANGED <<apiDoc, notesContent, ioVars, fetchVars, runVars>>

ResolveInit ==
    /\ SyncIdle(EmptyTree)
    /\ ExportIdle(<<>>)
    /\ ConvIdle
    /\ apiDoc \in ApiDocuments
    /\ notesContent = NotResolved
    /\ transcriptContent = NotResolved
    /\ FetchIdle
    /\ RunIdle

ResolveNext ==
    \/ \E d \in ApiDocuments : NextDocument(d)
    \/ GetNotesContent
    \/ FormatTranscriptContent

ResolveSpec == ResolveInit /\ [][ResolveNext]_vars


(***************************************************************************)
(* api.GetDocuments                                                        *)
(***************************************************************************)

\* limit := 100
Limit == 100

\* The most requests a call is seen to send: the server answers the last
\* of them with a short page or a failure.
MaxPages == 3

\* What can go wrong in one round of the loop: httpClient.Do fails, the
\* status is not 2xx, the body cannot be read, the body is no JSON
PageFailures == {"request", "status", "body", "decode"}

\* The documents the server sends for a request: size documents from offset
\* on, named by their position
Page(from, size) == [n \in 1..size |-> from + n]

\* GetDocuments that hands back what it has collected when a page fails
RequestPageKeepsPartial(outcome, size) ==
    /\ gpc = "request"
    /\ size >= Limit => Len(pages) + 1 < MaxPages
    /\ pages' = Append(pages, [offset |-> offset, outcome |-> outcome,
                               docs |-> IF outcome = "ok" THEN Page(offset, size)
                                        ELSE <<>>])
    /\ IF outcome # "ok"
       THEN /\ gpc' = "returned"
            /\ fetched' = [docs |-> allDocuments, err |-> outcome]
            /\ UNCHANGED <<offset, allDocuments>>
       ELSE /\ allDocuments' = allDocuments \o Page(offset, size)
            /\ IF size < Limit
               THEN /\ gpc' = "returned"
                    /\ fetched' = [docs |-> allDocuments', err |-> "nil"]
                    /\ UNCHANGED offset
               ELSE /\ offset' = offset + Limit
                    /\ UNCHANGED <<gpc, fetched>>
    /\ UNCHANGED <<ioVars, resolveVars, runVars>>

\* GetDocuments is called: getAccessToken(file) succeeds or fails.
GetAccessToken(ok) ==
    /\ gpc \in {"idle", "returned"}
    /\ offset' = 0
    /\ allDocuments' = <<>>
    /\ pages' = <<>>
    /\ IF ok
       THEN gpc' = "request" /\ fetched' = NotFetched
       ELSE gpc' = "returned" /\ fetched' = [docs |-> <<>>, err |-> "token"]
    /\ UNCHANGED <<ioVars, resolveVars, runVars>>

\* One round of the loop of GetDocuments: the request for limit documents
\* from offset on is sent; it fails (outcome), or the server answers with
\* size documents.
RequestPage(outcome, size) ==
    /\ gpc = "request"
    /\ size >= Limit => Len(pages) + 1 < MaxPages
    /\ pages' = Append(pages, [offset |-> offset, outcome |-> outcome,
                               docs |-> IF outcome = "ok" THEN Page(offset, size)
                                        ELSE <<>>])
    /\ IF outcome # "ok"
       THEN /\ gpc' = "returned"
            /\ fetched' = [docs |-> <<>>, err |-> outcome]
            /\ UNCHANGED <<offset, allDocuments>>
       ELSE /\ allDocuments' = allDocuments \o Page(offset, size)
            /\ IF size < Limit
               THEN /\ gpc' = "returned"
                    /\ fetched' = [docs |-> allDocuments', err |-> "nil"]
                    /\ UNCHANGED offset
               ELSE /\ offset' = offset + Limit
                    /\ UNCHANGED <<gpc, fetched>>
    /\ UNCHANGED <<ioVars, resolveVars, runVars>>

FetchInit ==
    /\ SyncIdle(EmptyTree)
    /\ ExportIdle(<<>>)
    /\ ConvIdle
    /\ ResolveIdle
    /\ FetchIdle
    /\ RunIdle

FetchNext ==
    \/ \E ok \in BOOLEAN : GetAccessToken(ok)
    \/ \E size \in 0..(Limit + 1) : RequestPage("ok", size)
    \/ \E outcome \in PageFailures : RequestPage(outcome, 0)

FetchSpec == FetchInit /\ [][FetchNext]_vars

(***************************************************************************)
(* runExport (cmd/export.go)                                               *)
(***************************************************************************)

\* What api.GetDocuments can return to runExport: the documents of the API
\* without an error, or an error of the token extraction or of a page
RunDocuments ==
    { <<>>,
      <<Document(Id8, TitleT, <<"0">>, <<>>)>>,
      <<Document(Id8, TitleT, <<"1">>, <<>>), Document(IdShort, TitleU, <<>>, <<>>)>> }

GetDocumentsResults ==
    { [docs |-> ds, err |-> "nil"] : ds \in RunDocuments }
    \cup { [docs |-> <<>>, err |-> e] : e \in {"token"} \cup PageFailures }

\* The folders of the cache file: document id |-> folder names
RunCaches ==
    { [Folders |-> <<>>],
      [Folders |-> [id \in {Id8, IdShort} |-> <<FolderA>>]] }

\* cacheData.GetFolderNames(id)
GetFolderNames(cache, id) == Lookup(cache.Folders, id)

\* Step 4 of runExport: one ExportDoc per API document.  An updated_at that
\* does not parse counts as now.
BuildExportDocs(ds, cache, now) ==
    [n \in 1..Len(ds) |->
        ExportDoc(ds[n].ID, ds[n].Title,
                  IF ParseTime(ds[n].UpdatedAt).ok THEN ParseTime(ds[n].UpdatedAt).t
                  ELSE now,
                  GetFolderNames(cache, ds[n].ID))]

\* runExport is called and reads supabase.json.
StartExport(ok) ==
    /\ rpc \in {"idle", "returned"}
    /\ pc \in {"idle", "done", "failed"}
    /\ clock < MaxRuns
    /\ apiDocs' = <<>>
    /\ exportDocs' = <<>>
    /\ calls' = clock
    /\ before' = [files |-> files, dirs |-> dirs]
    /\ seen' = [fetch |-> "none", cache |-> "none"]
    /\ IF ok
       THEN rpc' = "fetch" /\ returned' = NotReturned
       ELSE rpc' = "returned" /\ returned' = "supabase"
    /\ UNCHANGED <<ioVars, resolveVars, fetchVars>>

\* api.GetDocuments returns.
FetchDocuments(result) ==
    /\ rpc = "fetch"
    /\ IF result.err # "nil"
       THEN /\ rpc' = "returned"
            /\ returned' = result.err
            /\ seen' = [seen EXCEPT !.fetch = "failed"]
            /\ UNCHANGED apiDocs
       ELSE /\ rpc' = "cache"
            /\ apiDocs' = result.docs
            /\ seen' = [seen EXCEPT !.fetch = "ok"]
            /\ UNCHANGED returned
    /\ UNCHANGED <<exportDocs, calls, before, ioVars, resolveVars, fetchVars>>

\* runExport that logs a cache it cannot read and goes on without folders
ReadCacheOrGoOn(ok, cache) ==
    /\ rpc = "cache"
    /\ rpc' = "sync"
    /\ exportDocs' = BuildExportDocs(apiDocs, IF ok THEN cache ELSE [Folders |-> <<>>],
                                     clock + 1)
    /\ seen' = [seen EXCEPT !.cache = IF ok THEN "ok" ELSE "failed"]
    /\ UNCHANGED <<apiDocs, calls, before, returned, ioVars, resolveVars, fetchVars>>

\* cache.ReadCache returns; on success the export documents are built.
ReadCache(ok, cache) ==
    /\ rpc = "cache"
    /\ IF ~ok
       THEN /\ rpc' = "returned"
            /\ returned' = "cache"
            /\ seen' = [seen EXCEPT !.cache = "failed"]
            /\ UNCHANGED exportDocs
       ELSE /\ rpc' = "sync"
            /\ exportDocs' = BuildExportDocs(apiDocs, cache, clock + 1)
            /\ seen' = [seen EXCEPT !.cache = "ok"]
            /\ UNCHANGED returned
    /\ UNCHANGED <<apiDocs, calls, before, ioVars, resolveVars, fetchVars>>

\* syncWriter.Sync(exportDocs, allDocIDs) is called.
CallSync ==
    /\ rpc = "sync"
    /\ clock = calls
    /\ StartSync([docs |-> exportDocs, valid |-> IdsOf(apiDocs)])

\* Sync has returned, and runExport returns its error or nil.
ReturnFromSync ==
    /\ rpc = "sync"
    /\ clock > calls
    /\ pc \in {"done", "failed"}
    /\ rpc' = "returned"
    /\ returned' = IF pc = "failed" THEN "sync" ELSE "nil"
    /\ UNCHANGED <<apiDocs, exportDocs, calls, before, seen, ioVars, resolveVars,
                   fetchVars>>

RunInit ==
    /\ \E t \in InitTrees : SyncIdle(t)
    /\ ExportIdle(<<>>)
    /\ ConvIdle
    /\ ResolveIdle
    /\ FetchIdle
    /\ RunIdle

RunNext ==
    \/ \E ok \in BOOLEAN : StartExport(ok)
    \/ \E result \in GetDocumentsResults : FetchDocuments(result)
    \/ \E ok \in BOOLEAN : \E cache \in RunCaches : ReadCache(ok, cache)
    \/ CallSync
    \/ \E f \in {"none", "write"} : WriteTarget(f)
    \/ RemoveOld("none")
    \/ FinishDoc
    \/ \E id \in sweepLeft : SweepOrphan(id, "none")
    \/ CleanAndReturn("none")
    \/ ReturnFromSync

RunSpec == RunInit /\ [][RunNext]_vars

(***************************************************************************)
(* Claims                                                                  *)
(***************************************************************************)

\* The paths a run wrote, and the paths it removed.
Written(log) == { log[n].path : n \in { m \in 1..Len(log) : log[m].op = "write" } }
Removed(log) == { log[n].path : n \in { m \in 1..Len(log) : log[m].op = "remove" } }

\* The destination paths of a document.
TargetsOf(d) == SeqToSet(getTargetPaths(d.Folders, generateFilename(d.Title, d.ID)))

\* This run was given what the run before it was given, and that run
\* returned without error.
Rerun == prev.pc = "done" /\ prev.docs = docs /\ prev.valid = allDocIDs

\* C1: a run that repeats the run before it with unchanged input, every
\* document's UpdatedAt being earlier than the time of that first run,
\* reports Added = Updated = Moved = Deleted = 0 and leaves every file the
\* first run wrote in place.
C1_SecondRunOnlySkips ==
    (/\ pc = "done"
     /\ Rerun
     /\ \A n \in 1..Len(docs) : docs[n].UpdatedAt < clock - 1)
    => /\ stats.Added = 0 /\ stats.Updated = 0 /\ stats.Moved = 0 /\ stats.Deleted = 0
       /\ Written(prev.ops) \subseteq DOMAIN files

\* C2: the key under which scanExistingFiles indexes the file that
\* generateFilename names for a document is the key processDocument looks
\* up (doc.ID), so the file a run wrote for the document is among the
\* document's existing paths in the next run.
C2_IndexKeyIsDocID ==
    pc = "write"
    => /\ IndexKey(<<filename>>) = doc.ID
       /\ \A q \in DOMAIN start.files :
            (q \in Written(prev.ops) /\ Base(q) = filename) => q \in existingPathSet

\* C3: after Sync returns without error every document of the list has a
\* file at each of its target paths, and no other indexed file of the
\* document remains below outputDir.
C3_PlacedAtTargets ==
    pc = "done"
    => \A n \in 1..Len(docs) :
         /\ TargetsOf(docs[n]) \subseteq DOMAIN files
         /\ \A q \in DOMAIN files :
              (IndexKey(q) # <<>> /\ IndexKey(q) = IndexKey(<<generateFilename(docs[n].Title, docs[n].ID)>>))
              => q \in TargetsOf(docs[n])

\* The files that were below outputDir when the run began and whose
\* embedded id is not in the valid-id set.
OrphansAtStart ==
    { q \in DOMAIN start.files : IndexKey(q) # <<>> /\ IndexKey(q) \notin allDocIDs }

\* C4: after Sync returns without error every such file has been deleted
\* and counted once in Deleted, and no file whose embedded id is outside
\* the valid-id set remains below outputDir.
C4_NoOrphanRemains ==
    pc = "done"
    => /\ OrphansAtStart \cap DOMAIN files = {}
       /\ stats.Deleted = Cardinality(OrphansAtStart)
       /\ \A q \in DOMAIN files :
            (InsideRoot(q) /\ IndexKey(q) # <<>>) => IndexKey(q) \in allDocIDs

\* The run before this one returned without error and was given the one
\* document d0; this run is given the one document d1 with the same id.
Successive(d0, d1) ==
    /\ prev.pc = "done"
    /\ prev.docs = <<d0>>
    /\ docs = <<d1>>
    /\ d0.ID = d1.ID

\* C5: a document placed in folders A and B by the run before, now assigned
\* only A with the same title and an UpdatedAt not later than the mtime of
\* A's file: the file under B is removed and counted Moved, A's file is left
\* as it was and counted Skipped, and Added = Updated = Deleted = 0.
C5_FolderShrink ==
    \A id \in DocIds :
        LET d0 == ExportDoc(id, TitleT, 0, <<FolderA, FolderB>>)
            d1 == ExportDoc(id, TitleT, 0, <<FolderA>>)
            name == generateFilename(TitleT, id)
            inA == <<FolderA, name>>
            inB == <<FolderB, name>>
        IN  (/\ pc = "done"
             /\ Successive(d0, d1)
             /\ inA \in DOMAIN start.files
             /\ d1.UpdatedAt <= start.files[inA].mtime)
            => /\ inB \notin DOMAIN files
               /\ inA \in DOMAIN files
               /\ files[inA] = start.files[inA]
               /\ stats = [Added |-> 0, Updated |-> 0, Moved |-> 1, Deleted |-> 0,
                           Skipped |-> 1]

\* C6: a document that keeps its id and folder while its title changes is
\* the same document to the next run: afterwards its file exists under the
\* new name, the file with the old name is gone, and the removal is counted
\* as Moved and not as Deleted.
C6_TitleChangeKeepsIdentity ==
    \A id \in DocIds :
        LET d0 == ExportDoc(id, TitleT, 0, <<FolderA>>)
            d1 == ExportDoc(id, TitleU, 0, <<FolderA>>)
            old == <<FolderA, generateFilename(TitleT, id)>>
            new == <<FolderA, generateFilename(TitleU, id)>>
        IN  (pc = "done" /\ Successive(d0, d1))
            => /\ new \in DOMAIN files
               /\ old \notin DOMAIN files
               /\ stats.Moved = 1
               /\ stats.Deleted = 0

\* C7: after Sync returns without error no directory below outputDir is
\* empty, and outputDir is still there.
C7_NoEmptyFolder ==
    pc = "done"
    => /\ <<>> \in dirs
       /\ \A d \in dirs : (d # <<>> /\ InsideRoot(d)) => Children(dirs, files, d) # {}

\* C8: a target path that held the file when the run began is rewritten
\* only when the document's update time is strictly later than the file's
\* modification time; otherwise its content and mtime stay as they were.
C8_RewriteOnlyIfNewer ==
    [][(/\ pc = "write"
        /\ targetPaths[j] \in DOMAIN start.files
        /\ targetPaths[j] \in DOMAIN files
        /\ files[targetPaths[j]] = start.files[targetPaths[j]]
        /\ doc.UpdatedAt <= files[targetPaths[j]].mtime)
       => /\ targetPaths[j] \in DOMAIN files'
          /\ files'[targetPaths[j]] = files[targetPaths[j]]]_vars

\* C9: when processDocument has gone through a document's target paths,
\* each distinct destination path has been counted once in
\* Added/Updated/Skipped and written at most once.
C9_FanOutOncePerPath ==
    (pc = "remove" /\ k = 1)
    => /\ docStats.Added + docStats.Updated + docStats.Skipped
            = Cardinality(targetPathSet)
       /\ \A m, n \in 1..Len(ops) :
            (ops[m].op = "write" /\ ops[n].op = "write" /\ ops[m].id = doc.ID
             /\ ops[n].id = doc.ID /\ ops[m].path = ops[n].path) => m = n

\* C10: when creating a directory, writing a file or removing a file fails,
\* Sync returns an error that names the failing path; the failing step
\* leaves every other file as it was and removes no directory (no
\* rollback); and once Sync has failed nothing below outputDir changes.
C10_AbortOnFailure ==
    [][/\ (fault' # fault /\ fault'.op \in {"mkdir", "write", "remove"})
          => (pc' = "failed" /\ err' = fault'.path)
       /\ (pc # "failed" /\ pc' = "failed")
          => /\ \A q \in DOMAIN files \ {err'} :
                  q \in DOMAIN files' /\ files'[q] = files[q]
             /\ dirs \subseteq dirs'
       /\ pc = "failed" => (files' = files /\ dirs' = dirs)]_vars

\* A run has failed on the removal of a stale file after it had written a
\* file, with a document of the list still unprocessed.
C10_Witness ==
    /\ pc = "failed"
    /\ fault.op = "remove"
    /\ err = fault.path
    /\ Written(ops) # {}
    /\ Written(ops) \subseteq DOMAIN files
    /\ i < Len(docs)

\* C11: when the Stat of an existing target file fails in the
\* conditional-update check, Sync fails with an error that names the path
\* and the file is not written.
C11_StatFailureIsFatal ==
    [][(fault' # fault /\ fault'.op = "stat")
       => /\ pc' = "failed"
          /\ err' = fault'.path
          /\ files' = files]_vars

\* C12: a run that returns without error and without a failed operation,
\* given the documents and valid ids of the run before it, which had
\* aborted, leaves every document at exactly its target paths, no file whose
\* embedded id is outside the valid-id set, and no empty folder.
C12_SelfHealing ==
    (/\ pc = "done"
     /\ prev.pc = "failed"
     /\ prev.docs = docs
     /\ prev.valid = allDocIDs
     /\ fault = NoFault)
    => /\ \A n \in 1..Len(docs) :
            /\ TargetsOf(docs[n]) \subseteq DOMAIN files
            /\ \A q \in DOMAIN files :
                 (IndexKey(q) # <<>>
                  /\ IndexKey(q) = IndexKey(<<generateFilename(docs[n].Title, docs[n].ID)>>))
                 => q \in TargetsOf(docs[n])
       /\ \A q \in DOMAIN files :
            (InsideRoot(q) /\ IndexKey(q) # <<>>) => IndexKey(q) \in allDocIDs
       /\ \A d \in dirs : (d # <<>> /\ InsideRoot(d)) => Children(dirs, files, d) # {}

\* C13: when listing or removing a directory fails during the pruning of
\* empty folders, Sync returns without error, the counts are those the
\* reconcile and orphan steps had accumulated, and no file is touched.
C13_PruningFailureNonFatal ==
    [][(fault' # fault /\ fault'.op \in {"readdir", "rmdir"})
       => /\ pc' = "done"
          /\ err' = NoErr
          /\ stats' = stats
          /\ files' = files]_vars

\* A run has returned after the removal of a directory failed in the
\* pruning: it reports the orphan it deleted, and the folder the orphan
\* left empty is still there.
C13_Witness ==
    /\ pc = "done"
    /\ fault.op = "rmdir"
    /\ err = NoErr
    /\ stats.Deleted > 0
    /\ \E d \in dirs : d # <<>> /\ Children(dirs, files, d) = {}

\* The sanitized names of the documents writer.Write has gone through.
BareName(m) == sanitizeFilename(documents[m].Title, documents[m].ID)

\* How many of the first m documents share the sanitized name of the m-th.
Encounter(m) == Cardinality({ x \in 1..m : BareName(x) = BareName(m) })

\* C14: in a run of writer.Write, the first document with a given sanitized
\* name is given the bare name, and the k-th document with that sanitized
\* name (k >= 2) is given the name with the suffix _k.
C14_CollisionNumbering ==
    mode = "notes"
    => \A m \in 1..Len(assigned) :
         assigned[m] = IF Encounter(m) = 1 THEN BareName(m)
                       ELSE BareName(m) \o <<"_">> \o Itoa(Encounter(m))

\* C15: an export that is run again on the same input gives every document
\* the filename the run before gave it, and, begun on the same files,
\* reports the same count.
C15_DeterministicOrder ==
    (/\ phase = "done"
     /\ first.phase = "done"
     /\ first.mode = mode
     /\ first.documents = documents
     /\ first.cacheData = cacheData)
    => /\ assigned = first.assigned
       /\ startFiles = first.startFiles => count = first.count

\* A name that the filename policy leaves as it is.
IsClean(name) ==
    /\ name # <<>>
    /\ Len(name) <= MaxNameLen
    /\ \A p \in 1..Len(name) : name[p] \notin InvalidFileChars \cup {"_"}

\* C16: the name writer.sanitizeFilename returns for the document the loop
\* has just gone through is made from the trimmed title, or from the id when
\* the title is empty or blank (and is that very string when it is clean);
\* it holds no invalid character, no two underscores in a row, no underscore
\* at either end, is not empty and is at most 100 characters long.
C16_FilenamePolicy ==
    (mode = "notes" /\ idx > 1)
    => LET d == documents[idx - 1]
           name == sanitizeFilename(d.Title, d.ID)
           source == IF TrimSpace(d.Title) = <<>> THEN d.ID ELSE TrimSpace(d.Title)
       IN  /\ IsClean(source) => name = source
           /\ \A p \in 1..Len(name) : name[p] \notin InvalidFileChars
           /\ \A p \in 1..(Len(name) - 1) : ~(name[p] = "_" /\ name[p + 1] = "_")
           /\ name # <<>>
           /\ name[1] # "_"
           /\ name[Len(name)] # "_"
           /\ Len(name) <= MaxNameLen

\* C17: ConvertToMarkdown returns the empty string for a nil document, for
\* a document whose child list is absent and for a document whose child
\* list is there and empty.
C17_ChildlessRendersEmpty ==
    (pmOut # NotConverted /\ (pmDoc.IsNil \/ pmDoc.Content = <<>>))
    => pmOut = <<>>

\* The document that holds the one node.
DocOf(node) == ProseMirrorDoc("doc", <<node>>)

\* C18: ConvertToMarkdown never panics; a heading whose level is absent,
\* not a number, zero, negative or greater than 6 is rendered as a heading
\* of level 1; and a node of a kind the converter does not know renders as
\* the concatenation of its children.
C18_ConverterTotal ==
    pmOut # NotConverted
    => /\ pmOut # Panic
       /\ \A a \in LevelAttrs :
            (/\ a.nil \/ a.level.kind # "float64" \/ a.level.value \notin 1..6
             /\ pmDoc = DocOf(Heading(a, <<Text(<<"H">>)>>)))
            => pmOut = <<"#", " ", "H", "\n">>
       /\ \A node \in OtherNodes :
            (node.Type = "blockquote" /\ pmDoc = DocOf(node))
            => pmOut = TrimSpace(CollapseNewlines(
                           JoinStrings([c \in 1..Len(node.Content) |->
                                           processNode(node.Content[c], 0, FALSE)], <<>>)))
                       \o <<"\n">>

\* The rendering of a list at depth d as the claim describes it: for each
\* item d tabs, "- " and the item's own text, then the nested list from the
\* next line on, one tab deeper; the items are joined by single newlines.
RECURSIVE RenderList(_, _)
RenderList(list, d) ==
    JoinStrings([c \in 1..Len(list.Content) |->
                    LET item == list.Content[c]
                        own == item.Content[1].Content[1].Text
                        nested == IF Len(item.Content) > 1
                                  THEN <<"\n">> \o RenderList(item.Content[2], d + 1)
                                  ELSE <<>>
                    IN  Rep("\t", d) \o <<"-", " ">> \o own \o nested],
                <<"\n">>)

\* C19: a bullet list nested to any depth, alone in the document or next to
\* a paragraph, is rendered item by item with one tab per depth, the nested
\* list following its item on the next line, and no blank line inside.
C19_NestedListRendering ==
    pmOut # NotConverted
    => \A list \in NestedLists(0, MaxDepth) :
         /\ pmDoc = DocOf(list)
            => pmOut = RenderList(list, 0) \o <<"\n">>
         /\ pmDoc = ProseMirrorDoc("doc", <<Para(<<"p">>), list>>)
            => pmOut = <<"p", "\n", "\n">> \o RenderList(list, 0) \o <<"\n">>
         /\ pmDoc = ProseMirrorDoc("doc", <<list, Para(<<"q">>)>>)
            => pmOut = RenderList(list, 0) \o <<"\n", "\n", "q", "\n">>

\* The list [A0 [A1]] at the root of a document has been rendered as
\* "- A0\n\t- A1" and the closing newline.
C19_Witness ==
    /\ pmDoc = DocOf(BulletList(<<ListItem(<<Para(<<"A", "0">>),
                 BulletList(<<ListItem(<<Para(<<"A", "1">>)>>)>>)>>)>>))
    /\ pmOut = <<"-", " ", "A", "0", "\n", "\t", "-", " ", "A", "1", "\n">>

\* The texts of the text nodes of a tree.
RECURSIVE TextsOf(_)
TextsOf(node) ==
    (IF node.Type = "text" THEN {node.Text} ELSE {})
    \cup UNION { TextsOf(node.Content[c]) : c \in 1..Len(node.Content) }

\* C20: when ConvertToMarkdown returns for a document, the text of every
\* text node of the document (spaces at its ends aside) is found in what it
\* returns.
C20_NoContentLoss ==
    (/\ pmOut # NotConverted
     /\ pmOut # Panic
     /\ ~pmDoc.IsNil
     /\ pmDoc.Type = "doc"
     /\ ~pmDoc.ContentNil)
    => \A c \in 1..Len(pmDoc.Content) :
         \A t \in TextsOf(pmDoc.Content[c]) : Contains(pmOut, TrimSpace(t))


\* The five content sources of a document in their order, each rendered:
\* the trees through the converter, the markup of the panel stripped.
Sources(d) ==
    << d.NotesPlain,
       ConvertToPlainText(d.Notes),
       IF d.LastViewedPanel.IsNil THEN <<>>
       ELSE ConvertToPlainText(d.LastViewedPanel.Content),
       IF d.LastViewedPanel.IsNil THEN <<>>
       ELSE stripHTML(d.LastViewedPanel.OriginalContent),
       d.Content >>

FirstNonEmpty(srcs) ==
    IF \A s \in 1..Len(srcs) : srcs[s] = <<>> THEN <<>>
    ELSE srcs[CHOOSE s \in 1..Len(srcs) :
                  srcs[s] # <<>> /\ \A t \in 1..(s - 1) : srcs[t] = <<>>]

\* C21: the note content of a document is the first of NotesPlain, the
\* rendered Notes tree, the rendered tree of the last viewed panel, the
\* panel's markup stripped and decoded, and Content that is not empty; a
\* source that renders to nothing is passed over, and the content is empty
\* only when all five are.
C21_ResolutionOrder ==
    /\ notesContent # NotResolved => notesContent = FirstNonEmpty(Sources(apiDoc))
    /\ transcriptContent # NotResolved
          => transcriptContent = FirstNonEmpty(Sources(apiDoc))


\* The files this export has created or rewritten so far
Touched ==
    { p \in DOMAIN outFiles : p \notin DOMAIN startFiles \/ outFiles[p] # startFiles[p] }

\* The documents of the export that runs, with the content of each: for the
\* transcripts command the cache's transcripts
ExportedDocs ==
    IF mode = "transcripts"
    THEN { Document(id, <<>>, <<>>, cacheData.Transcripts[id]) :
             id \in DOMAIN cacheData.Transcripts }
    ELSE SeqToSet(documents)

\* C22: an export in the style of transcripts (transcript.Write,
\* writeTranscripts) creates or rewrites no file for a document whose
\* content is empty: every file it touches holds the non-empty content of a
\* document of the export.  An export of notes (writer.Write with
\* ToMarkdown), once it has returned, has left for a document without
\* content a file that is not empty.
C22_EmptyContentPolicy ==
    /\ mode \in {"transcript", "transcripts"}
          => \A p \in Touched :
                /\ outFiles[p].content # <<>>
                /\ outFiles[p].content[1].text # <<>>
                /\ \E d \in ExportedDocs :
                      d.ID = outFiles[p].content[1].id /\ d.Text # <<>>
    /\ (mode = "notes" /\ phase = "done")
          => \A n \in 1..Len(documents) :
                documents[n].Text = <<>>
                   => /\ assigned[n] \o MdExt \in DOMAIN outFiles
                      /\ outFiles[assigned[n] \o MdExt].content # <<>>

\* An export of transcripts has passed over a document without content whose
\* file was there from an earlier export, and has written another document.
C22_Witness ==
    /\ phase = "done"
    /\ mode = "transcript"
    /\ documents = <<DocE, DocA>>
    /\ assigned = <<TitleM, TitleM2>>
    /\ TitleM \o TxtExt \in DOMAIN outFiles
    /\ outFiles[TitleM \o TxtExt] = OldNote
    /\ Touched = {TitleM2 \o TxtExt}


\* C23: the orphan sweep of a run removes no file at a destination path of a
\* document of the run's list: what the reconcile step wrote or kept for a
\* document stays.
C23_ProcessedShielded ==
    [][pc = "sweep"
          => \A n \in 1..Len(docs) : \A p \in TargetsOf(docs[n]) :
                p \in DOMAIN files => p \in DOMAIN files']_vars


\* C24: within one run, no two documents with different ids are written to
\* the same destination path.
C24_NoCrossDocumentOverwrite ==
    \A a, b \in 1..Len(ops) :
        (ops[a].op = "write" /\ ops[b].op = "write" /\ ops[a].id # ops[b].id)
            => ops[a].path # ops[b].path


\* C25: every path a run creates, writes or removes lies inside outputDir,
\* whatever the folder names, titles and ids.
C25_ContainedInOutputDir ==
    /\ \A n \in 1..Len(ops) : InsideRoot(ops[n].path)
    /\ \A p \in dirs \cup DOMAIN files : InsideRoot(p)


\* processDocument is at a document (or has aborted there) that it
\* relocates: the index holds paths for it and they are not its target paths.
Relocating ==
    /\ pc \in {"write", "remove", "failed"}
    /\ i <= Len(docs)
    /\ existingPaths # <<>>
    /\ existingPathSet # targetPathSet

\* C26: processDocument writes every target path of a document before it
\* removes an old path of it, so while it relocates a document, and after
\* an abort at any step, at least one file of the document exists.
C26_WriteBeforeRemove ==
    /\ \A a, b \in 1..Len(ops) :
          (/\ ops[a].op = "remove"
           /\ ops[b].op \in {"write", "truncate"}
           /\ ops[a].id = ops[b].id
           /\ ops[a].id \in IdsOf(docs))
             => b < a
    /\ Relocating => \E p \in existingPathSet \cup targetPathSet : p \in DOMAIN files

\* A relocation has aborted in the removal of the old path, after the new
\* path was written.
C26_Witness ==
    /\ pc = "failed"
    /\ Relocating
    /\ fault.op = "remove"
    /\ \E n \in 1..Len(ops) : ops[n].op = "write" /\ ops[n].id = doc.ID
    /\ existingPathSet \subseteq DOMAIN files


\* A file the sync engine may take for one of its own: a .txt file whose
\* base name has an underscore followed by at least 8 characters.
Removable(path) ==
    /\ HasSuffix(Base(path), TxtExt)
    /\ LET name == TrimSuffix(Base(path), TxtExt)
       IN  \E u \in 1..Len(name) : name[u] = "_" /\ Len(name) - u >= ShortIDLen

\* The destination paths of the documents of this run
RunTargets == UNION { TargetsOf(docs[n]) : n \in 1..Len(docs) }

\* C27: a run removes no file that is not a .txt file with an underscore
\* followed by at least 8 characters in its base name, and it creates or
\* changes the content of no file whose path is not a destination path of a
\* document of the run.
C27_FrameOfSync ==
    /\ \A p \in DOMAIN start.files \ DOMAIN files : Removable(p)
    /\ \A n \in 1..Len(ops) : ops[n].op = "remove" => Removable(ops[n].path)
    /\ \A p \in DOMAIN files :
          (p \notin DOMAIN start.files \/ files[p].content # start.files[p].content)
             => p \in RunTargets

\* A run on the legacy tree has returned: it has written a document, swept
\* the orphan and left notes.md and todo_list.txt as they were.
C27_Witness ==
    /\ pc = "done"
    /\ start.files = LegacyTree.files
    /\ <<OldDir, SubDir, GoneTxt>> \notin DOMAIN files
    /\ <<NotesMd>> \in DOMAIN files /\ files[<<NotesMd>>] = Legacy
    /\ <<TodoTxt>> \in DOMAIN files /\ files[<<TodoTxt>>] = Legacy
    /\ \E n \in 1..Len(ops) : ops[n].op = "write"


\* C28: in writer.Write, in transcript.Write and in the transcripts
\* command, no two documents of one run are given the same file name.
C28_UniqueNamesPerRun ==
    \A a, b \in DOMAIN assigned : a # b => assigned[a] # assigned[b]


\* The documents of the pages a call has fetched, in page order
RECURSIVE Concat(_)
Concat(ps) == IF ps = <<>> THEN <<>> ELSE Head(ps).docs \o Concat(Tail(ps))

\* C30: GetDocuments asks for the pages at offsets 0, 100, 200, ... and
\* returns after the first page of fewer than 100 documents; it returns the
\* documents of all pages in page order, or, when the token cannot be
\* extracted (no request is sent then) or a page fails, an error with an
\* empty list, never a part of the documents.
C30_AllOrNothingPagination ==
    /\ \A n \in 1..Len(pages) : pages[n].offset = (n - 1) * Limit
    /\ \A n \in 1..(Len(pages) - 1) :
          pages[n].outcome = "ok" /\ Len(pages[n].docs) >= Limit
    /\ (pages # <<>> /\ gpc = "request")
          => /\ pages[Len(pages)].outcome = "ok"
             /\ Len(pages[Len(pages)].docs) >= Limit
    /\ (gpc = "returned" /\ fetched.err = "nil")
          => /\ pages # <<>>
             /\ pages[Len(pages)].outcome = "ok"
             /\ Len(pages[Len(pages)].docs) < Limit
             /\ fetched.docs = Concat(pages)
    /\ (gpc = "returned" /\ fetched.err # "nil")
          => /\ fetched.docs = <<>>
             /\ fetched.err = "token" => pages = <<>>
             /\ fetched.err # "token"
                   => pages # <<>> /\ pages[Len(pages)].outcome = fetched.err

\* The second page could not be decoded after a first page of 100 documents
\* had arrived.
C30_Witness ==
    /\ gpc = "returned"
    /\ fetched = [docs |-> <<>>, err |-> "decode"]
    /\ Len(pages) = 2
    /\ Len(allDocuments) = Limit


\* Sync has been called in the runExport that is running or has returned.
SyncCalled == rpc # "idle" /\ clock > calls

\* C29: runExport calls Sync only after GetDocuments and ReadCache have
\* both succeeded, with a valid-id set that holds the id of every document
\* the API returned; when the fetch or the reading of the cache fails, it
\* returns the error and nothing below the output root has been created,
\* written or removed.
C29_SyncOnCompleteView ==
    /\ SyncCalled
          => /\ seen = [fetch |-> "ok", cache |-> "ok"]
             /\ IdsOf(apiDocs) \subseteq allDocIDs
             /\ IdsOf(docs) \subseteq IdsOf(apiDocs)
    /\ (rpc # "idle" /\ (seen.fetch = "failed" \/ seen.cache = "failed"))
          => /\ rpc = "returned"
             /\ returned \in {"token", "cache"} \cup PageFailures
             /\ ~SyncCalled
             /\ files = before.files
             /\ dirs = before.dirs

\* runExport has returned the error of a cache it could not read, after the
\* API had returned a document, and the files of the legacy tree, the
\* orphan among them, are all there.
C29_Witness ==
    /\ rpc = "returned"
    /\ returned = "cache"
    /\ apiDocs # <<>>
    /\ <<OldDir, SubDir, GoneTxt>> \in DOMAIN files
    /\ files = before.files

====
